---- MODULE Spec2Model ----
(***************************************************************************)
(* Buyer/seller price negotiation of the vehicle marketplace front end.    *)
(* Two browser sessions (one buyer, one seller or dealer) run              *)
(* NegotiationClientWrapper for the same conversationId and talk to the    *)
(* proposal endpoint /api/negotiation-proposals (one stored proposal per   *)
(* conversation).  Each session polls the endpoint, edits its quote        *)
(* locally, submits / counters and accepts.                                *)
(***************************************************************************)
EXTENDS Integers, FiniteSets, Sequences, TLC

\* ------------------------------------------------------------------ bounds
MaxClock == 3          \* number of proposal puts issued in one behaviour
MaxInFlight == 2       \* unresolved proposal puts of one session
MaxPolls == 1          \* timer-started GETs of one session awaiting a reply

\* ------------------------------------------------------------ value sets
Party == {"B", "S"}                      \* the two sessions
SellerRoles == {"seller", "Dealer"}      \* role strings of the selling side
DiscountValues == {0, 10}                \* positions of the 0..30 range input
DownpaymentValues == {10, 20}            \* positions of the 10..100 input
PORT_OPTIONS == <<"PortA", "PortB">>
Ports == {PORT_OPTIONS[i] : i \in 1..Len(PORT_OPTIONS)}

Null == [status |-> "null"]              \* null / undefined proposal
BuyerStatuses == {"buyer_proposed", "buyer_countered"}

VARIABLES
    mounted,             \* sessions that have the conversation page open
    role,                \* props.role of each session
    store,               \* proposal kept by the endpoint for the conversation
    clock,               \* source of new Date().toISOString()
    activeProposal, uiStatus, isCountering, isSubmitting, submissionError,
    bucketDiscounts, downpaymentPercent, selectedPort,
    puts,                \* POSTs of saveProposal whose caller still awaits
    polls,               \* GETs of loadProposal whose reply is not handled
    emitted,             \* what the step just taken sent out without awaiting
                         \* it: window events and fire-and-forget requests
    showCartModal,       \* "Confirm Negotiated Cart" modal of each session
    cartPost,            \* POST /api/negotiation-cart awaited by a session
    localStorage,        \* negotiationItems_{conversationId} of each browser
    quoteItems,          \* line items handed to the bucket aggregation, and
                         \* the same items in another order
    grouped,             \* what the aggregation made of them
    quote,               \* a quote on the pricing panel and its figures
    disabled,            \* "Start quotation" button of a vehicle page
    conversationIds,     \* conversation ids in the order they were made
    page,                \* conversationId and sellerId of the open page
    shelved,             \* proposals the endpoint keeps for the conversations
                         \* whose page is not the open one
    enableRoleToggle,    \* props.enableRoleToggle of each session
    isRoleToggleEnabled, \* flipped by a double tap on the final price
    demoRole,            \* role picked on the "View as" toggle
    quoteBuilderIds,     \* localStorage "quoteBuilderIds"
    builderItems,        \* items state of the quote builder's list
    checkoutLoading,     \* checkoutLoading of the cart page
    checkoutRuns,        \* the invocations of handleCheckout and where each is
    calls                \* requests and navigations of the cart page, in order

vars == <<mounted, role, store, clock, activeProposal, uiStatus, isCountering,
          isSubmitting, submissionError, bucketDiscounts, downpaymentPercent,
          selectedPort, puts, polls, emitted, showCartModal, cartPost,
          localStorage, quoteItems, grouped, quote, disabled,
          conversationIds, page, shelved, enableRoleToggle,
          isRoleToggleEnabled, demoRole, quoteBuilderIds, builderItems,
          checkoutLoading, checkoutRuns, calls>>

local == <<activeProposal, uiStatus, isCountering, isSubmitting,
           submissionError>>
edits == <<bucketDiscounts, downpaymentPercent, selectedPort>>
cart == <<showCartModal, cartPost>>
\* state of the pages around the conversation page
ids == <<conversationIds, page, shelved>>
toggle == <<enableRoleToggle, isRoleToggleEnabled, demoRole>>
\* the id cache beside the stored list, and the builder page's copy of it
caches == <<quoteBuilderIds, builderItems>>
\* state added around the above
\* the cart page
checkout == <<checkoutLoading, checkoutRuns, calls>>
further == <<toggle, caches, checkout>>
aside == <<quoteItems, grouped, quote, disabled, ids, further>>
protocol == <<mounted, role, store, clock, local, edits, puts, polls>>

\* the step sends nothing out and touches neither the cart modal, the
\* browser storage nor the aggregation and pricing of a quote
Quiet == emitted' = <<>> /\ UNCHANGED <<cart, localStorage, aside>>

\* -------------------------------------------------------- role derivation
toLowerCase(s) ==
    CASE s = "Dealer" -> "dealer"
      [] s = "Seller" -> "seller"
      [] s = "Buyer"  -> "buyer"
      [] s = "DEALER" -> "dealer"
      [] s = "BMW"    -> "bmw"
      [] s = "Audi"   -> "audi"
      [] OTHER        -> s

\* enableRoleToggle && isRoleToggleEnabled ? demoRole : role
effectiveRole(p) ==
    IF enableRoleToggle[p] /\ isRoleToggleEnabled[p] THEN demoRole[p] ELSE role[p]
normalizedRole(p) == toLowerCase(effectiveRole(p))
isBuyer(p) == normalizedRole(p) = "buyer"
\* variant: only the role seller is the selling side
isSellerOnly(p) == normalizedRole(p) = "seller"
isSeller(p) == normalizedRole(p) = "seller" \/ normalizedRole(p) = "dealer"
canEditDiscounts(p) == isBuyer(p) \/ isCountering[p]
isProposalSubmitted(p) == activeProposal[p] # Null /\ ~isCountering[p]

canAccept(p) ==
    IF activeProposal[p] = Null THEN FALSE
    ELSE IF isSeller(p) /\ activeProposal[p].status \in {"buyer_proposed", "buyer_countered"} THEN TRUE
    ELSE IF isBuyer(p) /\ activeProposal[p].status = "seller_countered" THEN TRUE
    ELSE FALSE

\* what the page renders
AcceptButtonShown(p) == activeProposal[p] # Null /\ canAccept(p)
CounterButtonShown(p) ==
    activeProposal[p] # Null /\ activeProposal[p].status # "seller_accepted"
PanelShown(p) == activeProposal[p] = Null \/ isCountering[p]

\* The quote panel receives isSubmitting and locks its submit button with it.
PanelSubmitEnabled(p) == PanelShown(p) /\ ~isSubmitting[p]

\* ------------------------------------------------------ JSON on the wire
\* JSON.stringify of a proposal: the values of its members in their order
JSONstringify(proposal) ==
    <<proposal.discountPercent, proposal.finalPrice,
      proposal.downpaymentPercent, proposal.downpaymentAmount,
      proposal.remainingBalance, proposal.selectedPort, proposal.submittedAt,
      proposal.bucketSummaries, proposal.status>>

\* JSON.parse / res.json(): the object with the members of the text
JSONparse(text) ==
    [discountPercent |-> text[1], finalPrice |-> text[2],
     downpaymentPercent |-> text[3], downpaymentAmount |-> text[4],
     remainingBalance |-> text[5], selectedPort |-> text[6],
     submittedAt |-> text[7], bucketSummaries |-> text[8],
     status |-> text[9]]

\* ------------------------------------------------------------- the store
\* POST /api/negotiation-proposals {conversationId, proposal}: the endpoint
\* keeps the posted proposal as the conversation's proposal
StorePut(s, proposal) == proposal
\* GET /api/negotiation-proposals?conversationId=...
StoreGet(s) == s

\* ---------------------------------------------------------------- pricing
\* originalTotal of the quote panel: sum of totalUnits * unitPrice
RECURSIVE originalTotal(_)
originalTotal(bucketList) ==
    IF bucketList = <<>> THEN 0
    ELSE Head(bucketList).totalUnits * Head(bucketList).unitPrice
            + originalTotal(Tail(bucketList))

\* variant: the discount is taken off as an amount
discountedTotalLessAmount(total, discount) == total - discount
\* total * (1 - discount / 100).  Prices are multiples of 10,000, so the
\* quotients below are exact.
discountedTotal(total, discount) == (total * (100 - discount)) \div 100
\* discountedTotal * (percent / 100)
tokenAmount(discounted, percent) == (discounted * percent) \div 100

\* bucket card: discountAmount and finalPrice of one bucket
discountAmount(originalPrice, discountPercent) ==
    (originalPrice * discountPercent) \div 100
finalPrice(originalPrice, discountPercent) ==
    originalPrice - discountAmount(originalPrice, discountPercent)

\* bucketSummaries of a proposal: one summary per bucket on the panel
BucketSummaries(bucketList, discount) ==
    [i \in 1..Len(bucketList) |->
        [key |-> bucketList[i].key,
         totalUnits |-> bucketList[i].totalUnits,
         unitPrice |-> bucketList[i].unitPrice,
         total |-> bucketList[i].totalUnits * bucketList[i].unitPrice,
         discountPercent |-> discount]]

\* the figures the quote panel derives from its buckets and its two controls
Calculate(bucketList, discount, percent) ==
    LET final == discountedTotal(originalTotal(bucketList), discount)
        down == tokenAmount(final, percent)
    IN  [discountPercent |-> discount,
         finalPrice |-> final,
         downpaymentPercent |-> percent,
         downpaymentAmount |-> down,
         remainingBalance |-> final - down,
         bucketSummaries |-> BucketSummaries(bucketList, discount)]

\* the negotiation items of the conversation, grouped: one bucket of three
\* units at 10,000
NegotiationBuckets == <<[key |-> "b1", totalUnits |-> 3, unitPrice |-> 10000]>>

\* ------------------------------------------------------------- proposals
\* proposalData handed to onSubmit by the quote panel
ProposalData(p) ==
    Calculate(NegotiationBuckets, bucketDiscounts[p], downpaymentPercent[p])

SubmitStatus(p) ==
    IF isBuyer(p) /\ activeProposal[p].status = "seller_countered"
    THEN "buyer_countered"
    ELSE IF isBuyer(p) THEN "buyer_proposed" ELSE "seller_countered"

\* variant: the balance of the proposal is the price before the down payment
SubmitProposalBalanceOfPrice(p, proposalData) ==
    [discountPercent |-> proposalData.discountPercent,
     finalPrice |-> proposalData.finalPrice,
     downpaymentPercent |-> proposalData.downpaymentPercent,
     downpaymentAmount |-> proposalData.downpaymentAmount,
     remainingBalance |-> proposalData.finalPrice,
     selectedPort |-> selectedPort[p],
     submittedAt |-> clock,
     bucketSummaries |-> proposalData.bucketSummaries,
     status |-> SubmitStatus(p)]

SubmitProposal(p, proposalData) ==
    [discountPercent |-> proposalData.discountPercent,
     finalPrice |-> proposalData.finalPrice,
     downpaymentPercent |-> proposalData.downpaymentPercent,
     downpaymentAmount |-> proposalData.downpaymentAmount,
     remainingBalance |-> proposalData.remainingBalance,
     selectedPort |-> selectedPort[p],
     submittedAt |-> clock,
     bucketSummaries |-> proposalData.bucketSummaries,
     status |-> SubmitStatus(p)]

\* variant: the accepted proposal is rebuilt from the discount control
AcceptNextFromPanel(p) ==
    [activeProposal[p] EXCEPT !.status = "seller_accepted",
                              !.submittedAt = clock,
                              !.discountPercent = bucketDiscounts[p]]

AcceptNext(p) ==
    [activeProposal[p] EXCEPT !.status = "seller_accepted",
                              !.submittedAt = clock]

\* result object of saveProposal: { ok: true } or { ok: false, error }
SaveResult(ok) == [ok |-> ok]
\* JavaScript truthiness of the values used as conditions
TruthyObject(x) == TRUE
TruthyNumber(n) == n # 0
TruthyString(str) == str # ""

\* ------------------------------------------------------ conversation ids
\* A string is kept as the sequence of its pieces between "_": "b1" is
\* <<"b1">> and "b_1" is <<"b", "1">>.  Joining strings with "_" between them
\* is then their concatenation, and split("_") the sequence itself.
\* `${buyerId}_${peerId}_${vehicleId}_${token}` of createConversationId
createConversationId(buyerId, peerId, vehicleId, token) ==
    buyerId \o peerId \o vehicleId \o token

\* the conversation page: sellerId = conversationId.split("_")[1] ?? "",
\* sellerName the "seller" parameter of the address
MyConversation(conversationId, sellerQuery) ==
    [conversationId |-> conversationId,
     sellerId |-> IF Len(conversationId) >= 2 THEN conversationId[2] ELSE "",
     sellerName |-> sellerQuery]

\* no conversation page is open
NoPage == [conversationId |-> <<>>, sellerId |-> "", sellerName |-> ""]

\* the conversation whose page the sessions have open from the beginning
OpenConversationId == createConversationId(<<"b0">>, <<"s0">>, <<"v0">>, <<"u0">>)

\* invocations of handleCheckout followed on the cart page
MaxCheckouts == 2

\* handleCheckout has not been called for this invocation
NotInvoked ==
    [at |-> "idle", payload |-> [items |-> <<>>, negotiationOrders |-> <<>>],
     buyerEmail |-> "", res |-> "none", issued |-> 0]

\* --------------------------------------------------------------- Init
\* state after the first render of the sessions in open, with the discount
\* and down-payment controls of the quote on one of the given positions
InitProps(open, sellerRoles, discounts, percents, toggles) ==
    /\ mounted = open
    /\ role \in {[p \in Party |-> IF p = "B" THEN "buyer" ELSE r] : r \in sellerRoles}
    /\ store = Null
    /\ clock = 1
    /\ activeProposal = [p \in Party |-> Null]
    /\ uiStatus = [p \in Party |-> "IDLE"]
    /\ isCountering = [p \in Party |-> FALSE]
    /\ isSubmitting = [p \in Party |-> FALSE]
    /\ submissionError = [p \in Party |-> "null"]
    /\ bucketDiscounts \in {[p \in Party |-> d] : d \in discounts}
    /\ downpaymentPercent \in {[p \in Party |-> percent] : percent \in percents}
    /\ selectedPort = [p \in Party |-> PORT_OPTIONS[1]]
    /\ puts = [p \in Party |-> {}]
    /\ polls = [p \in Party |-> {}]
    /\ emitted = <<>>
    /\ showCartModal = [p \in Party |-> FALSE]
    /\ cartPost = [p \in Party |-> Null]
    /\ localStorage = [p \in Party |-> <<>>]
    /\ quoteItems = <<>>
    /\ grouped = <<>>
    /\ quote = Null
    /\ disabled = [p \in Party |-> FALSE]
    /\ conversationIds = IF open = {} THEN <<>> ELSE <<OpenConversationId>>
    /\ page = IF open = {} THEN NoPage ELSE MyConversation(OpenConversationId, "")
    /\ shelved = <<>>
    /\ enableRoleToggle \in {[p \in Party |-> e] : e \in toggles}
    /\ isRoleToggleEnabled = [p \in Party |-> FALSE]
    /\ demoRole = role
    /\ quoteBuilderIds = <<>>
    /\ builderItems = <<>>
    /\ checkoutLoading = FALSE
    /\ checkoutRuns = [r \in 1..MaxCheckouts |-> NotInvoked]
    /\ calls = <<>>

\* the same on a page that does not pass enableRoleToggle
InitControls(open, sellerRoles, discounts, percents) ==
    InitProps(open, sellerRoles, discounts, percents, {FALSE})

\* state after the first render of the sessions in open
InitWith(open, sellerRoles) == InitControls(open, sellerRoles, {0}, {10})

\* both parties have the conversation open
Init == InitWith(Party, SellerRoles)

\* ------------------------------------------------------------ polling
\* one run of loadProposal up to its first await: the GET is on its way;
\* isCountering is the value closed over by this effect run, isActive the
\* flag of that run
NewPoll(p, counterFlag) == [isCountering |-> counterFlag, isActive |-> TRUE]

\* the poll effect depends on isCountering: when it changes the cleanup of
\* the previous run clears its isActive and the new run calls loadProposal()
RerunPollEffect(p, counterFlag) ==
    IF counterFlag = isCountering[p]
    THEN polls[p]
    ELSE {[m EXCEPT !.isActive = FALSE] : m \in polls[p]} \cup {NewPoll(p, counterFlag)}

\* window.setInterval(loadProposal, 5000)
PollTick(p) ==
    /\ Cardinality(polls[p]) < MaxPolls
    /\ polls' = [polls EXCEPT ![p] = @ \cup {NewPoll(p, isCountering[p])}]
    /\ Quiet /\ UNCHANGED <<mounted, role, store, clock, local, edits, puts>>

\* nextDiscounts[key] of setStateFromProposal for the session's bucket
\* (undefined reads as 0)
nextDiscounts(proposal, key) ==
    LET hits == {i \in 1..Len(proposal.bucketSummaries) :
                    proposal.bucketSummaries[i].key = key}
    IN  IF hits = {} THEN 0
        ELSE proposal.bucketSummaries[CHOOSE i \in hits : \A j \in hits : j <= i].discountPercent

setStateFromProposal(p, proposal) ==
    /\ bucketDiscounts' = [bucketDiscounts EXCEPT ![p] =
            IF Len(proposal.bucketSummaries) > 0
            THEN nextDiscounts(proposal, NegotiationBuckets[1].key) ELSE @]
    /\ downpaymentPercent' = [downpaymentPercent EXCEPT ![p] =
            IF TruthyNumber(proposal.downpaymentPercent)
            THEN proposal.downpaymentPercent ELSE @]
    /\ selectedPort' = [selectedPort EXCEPT ![p] =
            IF TruthyString(proposal.selectedPort)
            THEN proposal.selectedPort ELSE @]

\* variant: the reply of a run that was cleaned up is handled all the same
PollAlwaysActive(m) == TRUE

\* "if (!isActive) return;"
PollStillActive(m) == m.isActive

\* variant: a poll completed in counter mode leaves activeProposal alone
PolledProposalUnlessCountering(p, m) ==
    IF m.isCountering THEN activeProposal[p] ELSE StoreGet(store)

\* body of the endpoint's answer to a GET
GetReply == [proposal |-> IF StoreGet(store) = Null THEN Null
                          ELSE JSONstringify(StoreGet(store))]

\* "const data = await res.json()": data.proposal
ReplyProposal(reply) ==
    IF reply.proposal = Null THEN Null ELSE JSONparse(reply.proposal)

\* setActiveProposal(data.proposal)
PolledProposal(p, m) == ReplyProposal(GetReply)

\* the endpoint answers a GET from the store and the reply arrives with
\* res.ok: the rest of loadProposal runs
PollResolveOk(p, m) ==
    /\ m \in polls[p]
    /\ polls' = [polls EXCEPT ![p] = @ \ {m}]
    /\ IF PollStillActive(m) /\ ReplyProposal(GetReply) # Null
       THEN /\ activeProposal' = [activeProposal EXCEPT ![p] = PolledProposal(p, m)]
            /\ uiStatus' = [uiStatus EXCEPT ![p] = "BUYER_PROPOSED"]
            /\ IF ~m.isCountering
               THEN setStateFromProposal(p, ReplyProposal(GetReply))
               ELSE UNCHANGED edits
       ELSE UNCHANGED <<activeProposal, uiStatus, edits>>
    /\ Quiet /\ UNCHANGED <<mounted, role, store, clock, isCountering, isSubmitting,
                   submissionError, puts>>

\* the reply is not ok, or fetch / res.json() throws
PollResolveFail(p, m) ==
    /\ m \in polls[p]
    /\ polls' = [polls EXCEPT ![p] = @ \ {m}]
    /\ Quiet /\ UNCHANGED <<mounted, role, store, clock, local, edits, puts>>

\* ------------------------------------------------------ local editing
\* range input of a bucket card (shown with canEditDiscounts, disabled when
\* the items section is locked) -> handleBucketDiscountChange
EditDiscount(p, v) ==
    /\ canEditDiscounts(p) /\ ~isProposalSubmitted(p)
    /\ v # bucketDiscounts[p]
    /\ bucketDiscounts' = [bucketDiscounts EXCEPT ![p] = v]
    /\ Quiet /\ UNCHANGED <<mounted, role, store, clock, local, downpaymentPercent, selectedPort,
                   puts, polls>>

\* onDownpaymentChange={setDownpaymentPercent} of the quote panel
EditDownpayment(p, v) ==
    /\ PanelShown(p)
    /\ v # downpaymentPercent[p]
    /\ downpaymentPercent' = [downpaymentPercent EXCEPT ![p] = v]
    /\ Quiet /\ UNCHANGED <<mounted, role, store, clock, local, bucketDiscounts, selectedPort,
                   puts, polls>>

\* onPortChange={setSelectedPort} of the quote panel
EditPort(p, v) ==
    /\ PanelShown(p)
    /\ v # selectedPort[p]
    /\ selectedPort' = [selectedPort EXCEPT ![p] = v]
    /\ Quiet /\ UNCHANGED <<mounted, role, store, clock, local, bucketDiscounts,
                   downpaymentPercent, puts, polls>>

\* "Counter offer" button: setIsCountering(true)
CounterClick(p) ==
    /\ CounterButtonShown(p)
    /\ ~isCountering[p]
    /\ isCountering' = [isCountering EXCEPT ![p] = TRUE]
    /\ polls' = [polls EXCEPT ![p] = RerunPollEffect(p, TRUE)]
    /\ Quiet /\ UNCHANGED <<mounted, role, store, clock, activeProposal, uiStatus, isSubmitting,
                   submissionError, edits, puts>>

\* --------------------------------------------------- submit / counter
\* fetch("/api/negotiation-index", ...).catch(() => {}) of a submit
IndexUpsert(p, indexOk) ==
    [type |-> "negotiation-index",
     roleType |-> IF isBuyer(p) THEN "buyer" ELSE "seller",
     status |-> "ongoing",
     settles |-> IF indexOk THEN "ok" ELSE "failed"]

\* variant: a failed upsert throws into the handler that issued it
IndexUpsertThrowsOnFailure(indexOk) == ~indexOk

\* The upsert is not awaited and its promise has the empty catch handler
\* only: whether it fails (indexOk = FALSE: rejected fetch or error
\* response) never reaches the code that issued it.
IndexUpsertThrows(indexOk) == FALSE

\* handleSubmitProposal(proposalData) up to "await saveProposal(proposal)";
\* indexOk is the fate of the index upsert it fires
handleSubmitProposal(p, proposalData, indexOk) ==
    /\ clock <= MaxClock /\ Cardinality(puts[p]) < MaxInFlight
    /\ emitted' = <<IndexUpsert(p, indexOk)>>
    /\ IF IndexUpsertThrows(indexOk)
       THEN \* catch (err) of handleSubmitProposal
            /\ submissionError' = [submissionError EXCEPT ![p] = "Network error. Please try again."]
            /\ uiStatus' = [uiStatus EXCEPT ![p] = "IDLE"]
            /\ activeProposal' = [activeProposal EXCEPT ![p] = Null]
            /\ UNCHANGED <<isSubmitting, puts, clock>>
       ELSE /\ isSubmitting' = [isSubmitting EXCEPT ![p] = TRUE]
            /\ puts' = [puts EXCEPT ![p] = @ \cup
                          {[kind |-> "submit",
                            proposal |-> SubmitProposal(p, proposalData)]}]
            /\ clock' = clock + 1
            /\ UNCHANGED <<activeProposal, uiStatus, submissionError>>
    /\ UNCHANGED <<mounted, role, store, isCountering, edits, polls, cart,
                   localStorage, aside>>

\* the submit button of the quote panel: onSubmit(proposalData)
SubmitClick(p) ==
    /\ PanelSubmitEnabled(p)
    /\ \E indexOk \in BOOLEAN : handleSubmitProposal(p, ProposalData(p), indexOk)

\* acceptProposal up to "await saveProposal(next)"
AcceptClick(p) ==
    /\ AcceptButtonShown(p)
    /\ clock <= MaxClock /\ Cardinality(puts[p]) < MaxInFlight
    /\ puts' = [puts EXCEPT ![p] = @ \cup
                  {[kind |-> "accept",
                    proposal |-> AcceptNext(p)]}]
    /\ clock' = clock + 1
    /\ Quiet /\ UNCHANGED <<mounted, role, store, local, edits, polls>>

\* variant: the endpoint keeps the first proposal of a conversation
saveProposalFirstWins(m, ok) ==
    /\ store' = IF ok /\ store = Null
                 THEN StorePut(store, JSONparse(JSONstringify(m.proposal)))
                 ELSE store
    /\ SaveResult(ok).ok = ok

\* saveProposal: the endpoint handles the POST and its reply arrives.
\* ok = TRUE: the endpoint stores the proposal and answers res.ok;
\* ok = FALSE: an error response, or the fetch rejects; nothing is stored.
saveProposal(m, ok) ==
    /\ store' = IF ok THEN StorePut(store, JSONparse(JSONstringify(m.proposal)))
                 ELSE store
    /\ SaveResult(ok).ok = ok

\* new CustomEvent("proposalSubmitted", {detail: {...}})
proposalSubmitted(proposal) ==
    [type |-> "proposalSubmitted",
     discountPercent |-> proposal.discountPercent,
     finalPrice |-> proposal.finalPrice,
     downpaymentPercent |-> proposal.downpaymentPercent]

\* variant: a put that failed leaves isSubmitting as it is
SubmitResolveHoldingOnFailure(p, m, ok) ==
    /\ m \in puts[p] /\ m.kind = "submit"
    /\ puts' = [puts EXCEPT ![p] = @ \ {m}]
    /\ saveProposal(m, ok)
    /\ IF ~SaveResult(ok).ok
       THEN /\ submissionError' = [submissionError EXCEPT ![p] = "Failed to submit proposal."]
            /\ uiStatus' = [uiStatus EXCEPT ![p] = "IDLE"]
            /\ activeProposal' = [activeProposal EXCEPT ![p] = Null]
            /\ UNCHANGED <<isSubmitting, isCountering, polls>>
            /\ emitted' = <<>>
       ELSE /\ uiStatus' = [uiStatus EXCEPT ![p] = "BUYER_PROPOSED"]
            /\ activeProposal' = [activeProposal EXCEPT ![p] = m.proposal]
            /\ isCountering' = [isCountering EXCEPT ![p] = FALSE]
            /\ polls' = [polls EXCEPT ![p] = RerunPollEffect(p, FALSE)]
            /\ emitted' = <<proposalSubmitted(m.proposal)>>
            /\ submissionError' = [submissionError EXCEPT ![p] = "null"]
            /\ isSubmitting' = [isSubmitting EXCEPT ![p] = FALSE]
    /\ UNCHANGED <<mounted, role, clock, edits, cart, localStorage, aside>>
\* handleSubmitProposal after the await
SubmitResolve(p, m, ok) ==
    /\ m \in puts[p] /\ m.kind = "submit"
    /\ puts' = [puts EXCEPT ![p] = @ \ {m}]
    /\ saveProposal(m, ok)
    /\ IF ~SaveResult(ok).ok
       THEN /\ submissionError' = [submissionError EXCEPT ![p] = "Failed to submit proposal."]
            /\ uiStatus' = [uiStatus EXCEPT ![p] = "IDLE"]
            /\ activeProposal' = [activeProposal EXCEPT ![p] = Null]
            /\ isSubmitting' = [isSubmitting EXCEPT ![p] = FALSE]
            /\ UNCHANGED <<isCountering, polls>>
            /\ emitted' = <<>>
       ELSE /\ uiStatus' = [uiStatus EXCEPT ![p] = "BUYER_PROPOSED"]
            /\ activeProposal' = [activeProposal EXCEPT ![p] = m.proposal]
            /\ isCountering' = [isCountering EXCEPT ![p] = FALSE]
            /\ polls' = [polls EXCEPT ![p] = RerunPollEffect(p, FALSE)]
            /\ emitted' = <<proposalSubmitted(m.proposal)>>
            /\ submissionError' = [submissionError EXCEPT ![p] = "null"]
            /\ isSubmitting' = [isSubmitting EXCEPT ![p] = FALSE]
    /\ UNCHANGED <<mounted, role, clock, edits, cart, localStorage, aside>>

\* acceptProposal after the await: "const ok = await saveProposal(next);
\* if (ok) {...}" tests the result object itself
AcceptResolve(p, m, ok) ==
    /\ m \in puts[p] /\ m.kind = "accept"
    /\ puts' = [puts EXCEPT ![p] = @ \ {m}]
    /\ saveProposal(m, ok)
    /\ IF TruthyObject(SaveResult(ok))
       THEN /\ activeProposal' = [activeProposal EXCEPT ![p] = m.proposal]
            /\ uiStatus' = [uiStatus EXCEPT ![p] = "BUYER_PROPOSED"]
            /\ isCountering' = [isCountering EXCEPT ![p] = FALSE]
            /\ polls' = [polls EXCEPT ![p] = RerunPollEffect(p, FALSE)]
       ELSE UNCHANGED <<activeProposal, uiStatus, isCountering, polls>>
    /\ Quiet /\ UNCHANGED <<mounted, role, clock, isSubmitting, submissionError, edits>>

\* ------------------------------------------------------ specification
\* Next: both sessions run the negotiation protocol; the quote is edited
\* through the bucket discount only (down payment and port keep their
\* initial values)
Next ==
    \E p \in mounted :
        \/ PollTick(p)
        \/ \E m \in polls[p] : PollResolveOk(p, m)
        \/ \E m \in polls[p] : PollResolveFail(p, m)
        \/ \E v \in DiscountValues : EditDiscount(p, v)
        \/ CounterClick(p)
        \/ SubmitClick(p)
        \/ AcceptClick(p)
        \/ \E m \in puts[p], ok \in BOOLEAN : SubmitResolve(p, m, ok)
        \/ \E m \in puts[p], ok \in BOOLEAN : AcceptResolve(p, m, ok)

Spec == Init /\ [][Next]_vars

\* ---------------------------------------------- one session in detail
\* One party has the page open and uses every quote control; the other
\* party acts from a browser that is not modelled: all that reaches this
\* session of it is the proposal its saveProposal stores.
CounterpartStatuses(p) ==
    IF isBuyer(p) THEN {"seller_countered", "seller_accepted"}
    ELSE {"buyer_proposed", "buyer_countered", "seller_accepted"}

CounterpartPut(p, d, dp, port, st) ==
    /\ mounted = {p}
    /\ clock <= MaxClock
    /\ st \in CounterpartStatuses(p)
    /\ st = "seller_accepted" => store # Null
    /\ LET proposalData == Calculate(NegotiationBuckets, d, dp)
       IN  store' = StorePut(store, JSONparse(JSONstringify(
                [discountPercent |-> proposalData.discountPercent,
                 finalPrice |-> proposalData.finalPrice,
                 downpaymentPercent |-> proposalData.downpaymentPercent,
                 downpaymentAmount |-> proposalData.downpaymentAmount,
                 remainingBalance |-> proposalData.remainingBalance,
                 selectedPort |-> port,
                 submittedAt |-> clock,
                 bucketSummaries |-> proposalData.bucketSummaries,
                 status |-> st])))
    /\ clock' = clock + 1
    /\ Quiet /\ UNCHANGED <<mounted, role, local, edits, puts, polls>>

\* the buyer has the page open
InitQuote == InitWith({"B"}, {"seller"})

NextQuote ==
    \/ Next
    \/ \E p \in mounted :
        \/ \E v \in DownpaymentValues : EditDownpayment(p, v)
        \/ \E v \in Ports : EditPort(p, v)
        \/ \E d \in DiscountValues, dp \in DownpaymentValues, port \in Ports,
              st \in {"buyer_proposed", "buyer_countered", "seller_countered",
                      "seller_accepted"} : CounterpartPut(p, d, dp, port, st)

SpecQuote == InitQuote /\ [][NextQuote]_vars

\* The same with the quote negotiated through the discount only, as in Next
NextVisible ==
    \/ Next
    \/ \E p \in mounted :
         \E d \in DiscountValues,
            st \in {"buyer_proposed", "buyer_countered", "seller_countered",
                    "seller_accepted"} :
                CounterpartPut(p, d, 10, PORT_OPTIONS[1], st)

\* The interval timer keeps starting polls, and the polls keep completing
\* successfully.
PollingFairness ==
    \A p \in Party :
        /\ WF_vars(p \in mounted /\ PollTick(p))
        /\ SF_vars(p \in mounted /\ \E m \in polls[p] : PollResolveOk(p, m))

\* either party has the page open
InitVisible == \E p \in Party : InitWith({p}, {"seller"})

SpecVisible == InitVisible /\ [][NextVisible]_vars /\ PollingFairness

\* Every put resolves or rejects: the browser settles the fetch of
\* saveProposal, and the continuation after the await then runs.
PutsSettle ==
    \A p \in Party :
        WF_vars(\E m \in puts[p], ok \in BOOLEAN : SubmitResolve(p, m, ok))

SpecSettles == InitVisible /\ [][NextVisible]_vars /\ PutsSettle

\* ---------------------------------------------- what onSubmit is handed
\* proposalData of quotes on no bucket or on the conversation's bucket, with
\* figures on and beyond the ends of the two controls
SubmittedQuotes ==
    {Calculate(bucketList, d, percent) :
        bucketList \in {<<>>, NegotiationBuckets},
        d \in {0, 30, 31}, percent \in {9, 10, 100}}

NextInput ==
    \E p \in mounted :
        \/ PollTick(p)
        \/ \E m \in polls[p] : PollResolveOk(p, m)
        \/ \E m \in polls[p] : PollResolveFail(p, m)
        \/ CounterClick(p)
        \/ \E proposalData \in SubmittedQuotes, indexOk \in BOOLEAN :
              PanelSubmitEnabled(p) /\ handleSubmitProposal(p, proposalData, indexOk)
        \/ \E m \in puts[p], ok \in BOOLEAN : SubmitResolve(p, m, ok)

SpecInput == InitVisible /\ [][NextInput]_vars

\* ------------------------------------------------ starting a negotiation
\* router.push(`/my-negotiations/${conversationId}`): the page of that
\* conversation opens, and the endpoint serves the proposal it keeps under
\* that conversationId
Route(p, conversationId, sellerQuery) ==
    /\ mounted' = mounted \cup {p}
    /\ page' = MyConversation(conversationId, sellerQuery)
    /\ IF conversationId = page.conversationId
       THEN UNCHANGED <<store, shelved>>
       ELSE /\ store' = IF conversationId \in DOMAIN shelved
                        THEN shelved[conversationId] ELSE Null
            /\ shelved' = IF page = NoPage THEN shelved
                          ELSE [id \in (DOMAIN shelved \cup {page.conversationId})
                                        \ {conversationId} |->
                                    IF id = page.conversationId THEN store
                                    ELSE shelved[id]]

\* the push of the button: the address carries no "seller" parameter
Navigate(p, conversationId) ==
    /\ Route(p, conversationId, "")
    /\ conversationIds' = Append(conversationIds, conversationId)

\* the button of the vehicle page and what it was clicked with: the user id
\* getUserInfoByToken returns, the props peerId and vehicleId, and the token
\* that crypto.randomUUID() or Date.now() and Math.random() give
DefaultStart ==
    [userId |-> <<"b1">>, peerId |-> <<"s1">>, vehicleId |-> <<"v1">>,
     token |-> <<"u1">>]

\* "Start quotation" on a vehicle page: handleNegotiatePrice.  userInfo is
\* the outcome of getUserInfoByToken ("none": the request throws), indexOk
\* the fate of the index upsert, start what the id is made of.
handleNegotiatePrice(p, userInfo, indexOk, start) ==
    /\ p \notin mounted /\ ~disabled[p]
    /\ IF userInfo = "none"
       THEN /\ emitted' = <<[type |-> "router.push", to |-> "/login"]>>
            /\ UNCHANGED <<mounted, disabled, store, ids>>
       ELSE IF toLowerCase(userInfo) = "buyer"
       THEN IF IndexUpsertThrows(indexOk)
            THEN /\ emitted' = <<[type |-> "router.push", to |-> "/login"]>>
                 /\ UNCHANGED <<mounted, disabled, store, ids>>
            ELSE /\ emitted' = <<[type |-> "negotiation-index", roleType |-> "buyer",
                                  status |-> "none",
                                  settles |-> IF indexOk THEN "ok" ELSE "failed"],
                                 [type |-> "router.push", to |-> "/my-negotiations"]>>
                 /\ Navigate(p, createConversationId(start.userId, start.peerId,
                                                      start.vehicleId, start.token))
                 /\ UNCHANGED disabled
       ELSE /\ emitted' = <<[type |-> "message.info"]>>
            /\ disabled' = [disabled EXCEPT ![p] = TRUE]
            /\ UNCHANGED <<mounted, store, ids>>
    /\ UNCHANGED <<role, clock, local, edits, puts, polls, cart,
                   localStorage, quoteItems, grouped, quote, further>>

\* nobody has the conversation open yet
InitStart == InitWith({}, SellerRoles)

NextStart ==
    \/ NextVisible
    \/ \E p \in Party, indexOk \in BOOLEAN :
          \E userInfo \in {role[p], "none"} :
              handleNegotiatePrice(p, userInfo, indexOk, DefaultStart)

SpecStart == InitStart /\ [][NextStart]_vars

\* ---------------------------------------------- a user of another role
\* role strings of a user who is neither buyer nor seller / dealer; the page
\* hands props.role = userData.data?.roleType to the wrapper as it is
OutsiderRoles == {"admin", "undefined"}

\* such a user and the buyer have the conversation page open
InitOutsider == InitWith(Party, OutsiderRoles)

\* both sessions run the protocol on the quote as it stands
NextOutsider ==
    \E p \in mounted :
        \/ PollTick(p)
        \/ \E m \in polls[p] : PollResolveOk(p, m)
        \/ CounterClick(p)
        \/ SubmitClick(p)
        \/ AcceptClick(p)
        \/ \E m \in puts[p], ok \in BOOLEAN : SubmitResolve(p, m, ok)
        \/ \E m \in puts[p], ok \in BOOLEAN : AcceptResolve(p, m, ok)

SpecOutsider == InitOutsider /\ [][NextOutsider]_vars

\* --------------------------------------------------- the role toggle
\* variant: the double tap alone brings up the "View as" buttons
ViewAsShownOnDoubleTap(p) == isRoleToggleEnabled[p]
\* the "View as" buttons are rendered
ViewAsShown(p) == enableRoleToggle[p] /\ isRoleToggleEnabled[p]

\* onFinalPriceDoubleTap of the panel or of the proposal summary
FinalPriceDoubleTap(p) ==
    /\ isRoleToggleEnabled' = [isRoleToggleEnabled EXCEPT ![p] = ~@]
    /\ emitted' = <<>>
    /\ UNCHANGED <<protocol, cart, localStorage, quoteItems, grouped, quote,
                   disabled, ids, enableRoleToggle, demoRole, caches,
                   checkout>>

\* "Buyer" / "Seller" of the View as toggle: setDemoRole
SetDemoRole(p, picked) ==
    /\ ViewAsShown(p)
    /\ demoRole' = [demoRole EXCEPT ![p] = picked]
    /\ emitted' = <<>>
    /\ UNCHANGED <<protocol, cart, localStorage, quoteItems, grouped, quote,
                   disabled, ids, enableRoleToggle, isRoleToggleEnabled,
                   caches, checkout>>

\* either party has the page open, on a page that passes enableRoleToggle
\* or on one that does not
InitToggle ==
    \E p \in Party : InitProps({p}, {"seller"}, {0}, {10}, BOOLEAN)

NextToggle ==
    \/ NextVisible
    \/ \E p \in mounted :
          \/ FinalPriceDoubleTap(p)
          \/ \E picked \in {"buyer", "seller"} : SetDemoRole(p, picked)

SpecToggle == InitToggle /\ [][NextToggle]_vars

\* ------------------------------------------- negotiations started anew
\* ids of users and vehicles, with and without "_" in them
UserIds == {<<"b1">>, <<"b", "1">>}
PeerIds == {<<"s1">>, <<"s", "1">>}
VehicleIds == {<<"v1">>}

\* crypto.randomUUID(): a token that was not given out before
RandomUUIDs ==
    {token \in {<<"u1">>, <<"u2">>, <<"u3">>} :
        \A i \in DOMAIN conversationIds :
            conversationIds[i][Len(conversationIds[i])] # token[1]}

\* `${Date.now()}_${Math.random().toString(36).slice(2, 8)}`, where
\* crypto.randomUUID is not available: the millisecond of the click and a
\* pseudo-random piece
FallbackTokens == {<<now, random>> : now \in {"1000"}, random \in {"r1", "r2"}}

\* handleNegotiatePrice of the button on the quote builder's seller groups
\* (components/buyer/NegotiatePriceButton.tsx)
handleNegotiatePriceOfBuilder(p, userInfo, start) ==
    /\ p \notin mounted /\ ~disabled[p]
    /\ IF userInfo = "none"
       THEN /\ emitted' = <<[type |-> "router.push", to |-> "/login"]>>
            /\ UNCHANGED <<mounted, disabled, store, ids>>
       ELSE IF toLowerCase(userInfo) = "buyer"
       THEN /\ emitted' = <<[type |-> "router.push", to |-> "/my-negotiations"]>>
            /\ Navigate(p, start.userId \o start.peerId \o start.vehicleId)
            /\ UNCHANGED disabled
       ELSE /\ emitted' = <<[type |-> "message.info"]>>
            /\ disabled' = [disabled EXCEPT ![p] = TRUE]
            /\ UNCHANGED <<mounted, store, ids>>
    /\ UNCHANGED <<role, clock, local, edits, puts, polls, cart,
                   localStorage, quoteItems, grouped, quote, further>>

\* "Back to Conversations" once the page's requests have settled: the page
\* unmounts, its effect cleanup ends the polling and its state is gone
LeavePage(p) ==
    /\ p \in mounted /\ puts[p] = {} /\ cartPost[p] = Null
    /\ mounted' = mounted \ {p}
    /\ polls' = [polls EXCEPT ![p] = {}]
    /\ activeProposal' = [activeProposal EXCEPT ![p] = Null]
    /\ uiStatus' = [uiStatus EXCEPT ![p] = "IDLE"]
    /\ isCountering' = [isCountering EXCEPT ![p] = FALSE]
    /\ isSubmitting' = [isSubmitting EXCEPT ![p] = FALSE]
    /\ submissionError' = [submissionError EXCEPT ![p] = "null"]
    /\ bucketDiscounts' = [bucketDiscounts EXCEPT ![p] = 0]
    /\ downpaymentPercent' = [downpaymentPercent EXCEPT ![p] = 10]
    /\ selectedPort' = [selectedPort EXCEPT ![p] = PORT_OPTIONS[1]]
    /\ showCartModal' = [showCartModal EXCEPT ![p] = FALSE]
    /\ isRoleToggleEnabled' = [isRoleToggleEnabled EXCEPT ![p] = FALSE]
    /\ demoRole' = [demoRole EXCEPT ![p] = role[p]]
    /\ emitted' = <<>>
    /\ UNCHANGED <<role, store, clock, puts, cartPost, localStorage, quoteItems,
                   grouped, quote, disabled, ids, enableRoleToggle, caches,
                   checkout>>

MaxStarts == 2

\* nobody has a conversation open yet
InitIds == InitWith({}, {"seller"})

NextIds ==
    \/ \E p \in Party, indexOk \in BOOLEAN,
          userId \in UserIds, peerId \in PeerIds, vehicleId \in VehicleIds :
          \E userInfo \in {role[p], "none"}, token \in RandomUUIDs \cup FallbackTokens :
              /\ Len(conversationIds) < MaxStarts
              /\ \/ handleNegotiatePrice(p, userInfo, indexOk,
                        [userId |-> userId, peerId |-> peerId,
                         vehicleId |-> vehicleId, token |-> token])
                 \/ handleNegotiatePriceOfBuilder(p, userInfo,
                        [userId |-> userId, peerId |-> peerId,
                         vehicleId |-> vehicleId, token |-> token])
    \/ \E p \in mounted :
          \/ PollTick(p)
          \/ \E m \in polls[p] : PollResolveOk(p, m)
          \/ SubmitClick(p)
          \/ \E m \in puts[p] : SubmitResolve(p, m, TRUE)
          \/ LeavePage(p)

SpecIds == InitIds /\ [][NextIds]_vars

\* --------------------------------------------------------- cart handoff
\* "Add to cart" under the proposal summary: setShowCartModal(true)
AddToCartShown(p) ==
    /\ ~PanelShown(p)
    /\ activeProposal[p] # Null
    /\ activeProposal[p].status = "seller_accepted" /\ isBuyer(p)

OpenCartModal(p) ==
    /\ AddToCartShown(p)
    /\ ~showCartModal[p]
    /\ showCartModal' = [showCartModal EXCEPT ![p] = TRUE]
    /\ emitted' = <<>>
    /\ UNCHANGED <<protocol, cartPost, localStorage, aside>>

\* Cancel, or the close button of the modal: setShowCartModal(false)
CloseCartModal(p) ==
    /\ showCartModal[p]
    /\ showCartModal' = [showCartModal EXCEPT ![p] = FALSE]
    /\ emitted' = <<>>
    /\ UNCHANGED <<protocol, cartPost, localStorage, aside>>

\* items of the cart request: the summaries with their discounted totals
CartItems(bucketSummaries) ==
    [i \in 1..Len(bucketSummaries) |->
        [bucketKey |-> bucketSummaries[i].key,
         totalUnits |-> bucketSummaries[i].totalUnits,
         unitPrice |-> bucketSummaries[i].unitPrice,
         discountPercent |-> bucketSummaries[i].discountPercent,
         total |-> discountedTotal(bucketSummaries[i].total,
                                   bucketSummaries[i].discountPercent)]]

\* body of POST /api/negotiation-cart, with the proposal it was made from
CartRequest(p) ==
    [status |-> "posted",
     buyerRole |-> normalizedRole(p),
     proposal |-> activeProposal[p],
     items |-> CartItems(activeProposal[p].bucketSummaries),
     totals |-> [total |-> activeProposal[p].finalPrice,
                 downpayment |-> activeProposal[p].downpaymentAmount,
                 pending |-> activeProposal[p].remainingBalance],
     selectedPort |-> activeProposal[p].selectedPort]

\* "Confirm & Add to Cart" of the modal (rendered with the modal open and
\* an activeProposal; the button shows loading while cartLoading):
\* addNegotiationToCart up to its await
addNegotiationToCart(p) ==
    /\ showCartModal[p] /\ activeProposal[p] # Null
    /\ cartPost[p] = Null
    /\ cartPost' = [cartPost EXCEPT ![p] = CartRequest(p)]
    /\ emitted' = <<>>
    /\ UNCHANGED <<protocol, showCartModal, localStorage, aside>>

\* addNegotiationToCart after the await.  ok: the modal closes and
\* router.push("/my-cart") leaves the conversation page, which ends its
\* poll effect; otherwise cartError is shown in the open modal.
CartResolve(p, ok) ==
    /\ cartPost[p] # Null
    /\ cartPost' = [cartPost EXCEPT ![p] = Null]
    /\ emitted' = <<>>
    /\ IF ok
       THEN /\ showCartModal' = [showCartModal EXCEPT ![p] = FALSE]
            /\ mounted' = mounted \ {p}
            /\ polls' = [polls EXCEPT ![p] = {}]
       ELSE UNCHANGED <<showCartModal, mounted, polls>>
    /\ UNCHANGED <<role, store, clock, local, edits, puts, localStorage, aside>>

\* a POST of saveProposal whose page is gone: the endpoint handles it, the
\* state updates of its continuation reach nothing
OrphanResolve(p, m, ok) ==
    /\ p \notin mounted /\ m \in puts[p]
    /\ puts' = [puts EXCEPT ![p] = @ \ {m}]
    /\ saveProposal(m, ok)
    /\ Quiet /\ UNCHANGED <<mounted, role, clock, local, edits, polls>>

NextCart ==
    \/ Next
    \/ \E p \in mounted :
        \/ OpenCartModal(p)
        \/ CloseCartModal(p)
        \/ addNegotiationToCart(p)
        \/ \E ok \in BOOLEAN : CartResolve(p, ok)
    \/ \E p \in Party \ mounted : \E m \in puts[p], ok \in BOOLEAN :
            OrphanResolve(p, m, ok)

\* buyer and seller have the conversation open
InitCart == InitWith(Party, {"seller"})

SpecCart == InitCart /\ [][NextCart]_vars

\* ------------------------------------------------ a quote from end to end
DiscountRange == 0..30          \* the discount control
DownpaymentRange == 10..100     \* the down-payment control

\* the counterpart's acceptProposal on the proposal it has loaded, stored
CounterpartAccept(p) ==
    /\ store # Null
    /\ store.status \in (IF isBuyer(p) THEN BuyerStatuses ELSE {"seller_countered"})
    /\ CounterpartPut(p, store.discountPercent, store.downpaymentPercent,
                      store.selectedPort, "seller_accepted")

\* the counterpart's counter-offer to the proposal it has loaded, at an end
\* of either control's range
CounterpartCounter(p) ==
    /\ store # Null
    /\ store.status \in (IF isBuyer(p) THEN BuyerStatuses ELSE {"seller_countered"})
    /\ \E ends \in {<<0, 100>>, <<30, 10>>} :
        CounterpartPut(p, ends[1], ends[2], PORT_OPTIONS[1],
                       IF isBuyer(p) THEN "seller_countered" ELSE "buyer_countered")

\* The buyer has set the two controls of the panel.
InitPricing ==
    InitControls({"B"}, {"seller"}, DiscountRange, DownpaymentRange)

NextPricing ==
    \E p \in mounted :
        \/ PollTick(p)
        \/ \E m \in polls[p] : PollResolveOk(p, m)
        \/ SubmitClick(p)
        \/ \E m \in puts[p] : SubmitResolve(p, m, TRUE)
        \/ CounterpartAccept(p)
        \/ CounterpartCounter(p)
        \/ CounterClick(p)
        \/ OpenCartModal(p)
        \/ addNegotiationToCart(p)
        \/ CartResolve(p, TRUE)

SpecPricing == InitPricing /\ [][NextPricing]_vars

\* --------------------------------------------------- the buyer's quote list
\* Vehicles of the inventory listing.  Two cards of one make, model, colour,
\* year, condition and body type may carry different prices.
\* userId is the owner's id, "" when the listing gives none.
Vehicle(id, brand, price, companyName, userId) ==
    [id |-> id, brand |-> brand, model |-> "x5", variant |-> "m", color |-> "white",
     year |-> 2020, condition |-> "used", bodyType |-> "suv", city |-> "Dubai",
     price |-> price, currency |-> "USD", companyName |-> companyName,
     userId |-> userId]

Inventory ==
    {Vehicle("v1", "BMW", 10000, "Acme", "s1"),
     Vehicle("v2", "BMW", 20000, "Acme", "s1"),
     Vehicle("v3", "bmw", 10000, "Acme", ""),
     Vehicle("v4", "Audi", 10000, "", "s3"),
     Vehicle("v5", "BMW", 10000, "Bravo", "s2")}

\* buildBucketKey of the listing: the joined attributes, the price not among
\* them
listingBucketKey(inv) ==
    <<toLowerCase(inv.brand), toLowerCase(inv.model), toLowerCase(inv.variant),
      toLowerCase(inv.color), inv.year, toLowerCase(inv.condition),
      toLowerCase(inv.bodyType)>>

\* storageItem of a listing card
storageItem(inv) ==
    [id |-> inv.id,
     name |-> <<inv.brand, inv.model>>,
     year |-> inv.year,
     location |-> inv.city,
     quantity |-> 1,
     price |-> inv.price,
     currency |-> inv.currency,
     sellerCompany |-> IF inv.companyName # "" THEN inv.companyName ELSE "Unknown Seller",
     sellerId |-> inv.userId,
     bucketKey |-> listingBucketKey(inv),
     isSelected |-> TRUE]

\* item.bucketKey || [name, year, location, price, currency].join("|")
buildBucketKey(item) ==
    IF item.bucketKey # <<>> THEN item.bucketKey
    ELSE <<item.name, item.year, item.location, item.price, item.currency>>

\* the loop of groupBuckets over the Map (kept in insertion order)
RECURSIVE groupBucketsInto(_, _)
groupBucketsInto(map, list) ==
    IF list = <<>> THEN map
    ELSE LET item == Head(list)
             key == buildBucketKey(item)
         IN  IF \E i \in DOMAIN map : map[i].key = key
             THEN groupBucketsInto(
                      [i \in DOMAIN map |->
                          IF map[i].key = key
                          THEN [map[i] EXCEPT !.totalUnits = @ + item.quantity]
                          ELSE map[i]],
                      Tail(list))
             ELSE groupBucketsInto(
                      Append(map, [key |-> key,
                                   name |-> item.name,
                                   year |-> item.year,
                                   location |-> item.location,
                                   unitPrice |-> item.price,
                                   currency |-> item.currency,
                                   totalUnits |-> item.quantity]),
                      Tail(list))

groupBuckets(list) == groupBucketsInto(<<>>, list)

\* sellerItems of the panel opened with a seller's name
sellerItems(items, sellerName) ==
    SelectSeq(items, LAMBDA i : i.sellerCompany = sellerName)

\* the loop of groupBySellerAndBucket: sellers in insertion order, each with
\* its buckets in insertion order (the seller's id and representative
\* vehicle, looked up beside the buckets, take no part in the grouping)
RECURSIVE groupBySellerInto(_, _)
groupBySellerInto(sellers, list) ==
    IF list = <<>> THEN sellers
    ELSE LET item == Head(list)
             seller == IF item.sellerCompany # "" THEN item.sellerCompany
                       ELSE "Unknown Seller"
             bucketKey == buildBucketKey(item)
             known == IF \E s \in DOMAIN sellers : sellers[s].sellerCompany = seller
                      THEN sellers
                      ELSE Append(sellers, [sellerCompany |-> seller, buckets |-> <<>>])
             into(bucketMap) ==
                 IF \E i \in DOMAIN bucketMap : bucketMap[i].key = bucketKey
                 THEN [i \in DOMAIN bucketMap |->
                          IF bucketMap[i].key = bucketKey
                          THEN [bucketMap[i] EXCEPT !.items = Append(@, item),
                                                    !.totalUnits = @ + item.quantity]
                          ELSE bucketMap[i]]
                 ELSE Append(bucketMap, [key |-> bucketKey,
                                         name |-> item.name,
                                         year |-> item.year,
                                         location |-> item.location,
                                         price |-> item.price,
                                         currency |-> item.currency,
                                         items |-> <<item>>,
                                         totalUnits |-> item.quantity])
         IN  groupBySellerInto(
                 [s \in DOMAIN known |->
                     IF known[s].sellerCompany = seller
                     THEN [known[s] EXCEPT !.buckets = into(@)]
                     ELSE known[s]],
                 Tail(list))

RECURSIVE SumItems(_)
SumItems(bucketList) ==
    IF bucketList = <<>> THEN 0
    ELSE Len(Head(bucketList).items) + SumItems(Tail(bucketList))

RECURSIVE SumUnits(_)
SumUnits(bucketList) ==
    IF bucketList = <<>> THEN 0
    ELSE Head(bucketList).totalUnits + SumUnits(Tail(bucketList))

groupBySellerAndBucket(list) ==
    LET sellers == groupBySellerInto(<<>>, list)
    IN  [s \in DOMAIN sellers |->
            [sellerCompany |-> sellers[s].sellerCompany,
             buckets |-> sellers[s].buckets,
             totalItems |-> SumItems(sellers[s].buckets),
             totalUnits |-> SumUnits(sellers[s].buckets)]]

\* the seller whose panel the buyer has open on the negotiations page
PanelSeller == "Acme"

\* what the pages render from the stored list: the builder's seller groups,
\* the panel's buckets and the panel's three amounts (discount 1, token 10)
Render(items) ==
    /\ grouped' = [sellers |-> groupBySellerAndBucket(items),
                   buckets |-> groupBuckets(sellerItems(items, PanelSeller))]
    /\ quote' = LET total == originalTotal(groupBuckets(sellerItems(items, PanelSeller)))
                IN  [originalTotal |-> total,
                     discountedTotal |-> discountedTotal(total, 1),
                     tokenAmount |-> tokenAmount(discountedTotal(total, 1), 10)]

\* canUseQuoteBuilder of the listing: userRole is the lower-cased roleType,
\* "" until fetchRole has answered
canUseQuoteBuilder(userRole) == userRole = "buyer"

\* Array.from(new Set(ids)): the first occurrence of each id, in order
RECURSIVE ArrayFromSet(_)
ArrayFromSet(list) ==
    IF list = <<>> THEN <<>>
    ELSE LET front == ArrayFromSet(SubSeq(list, 1, Len(list) - 1))
             last == list[Len(list)]
         IN  IF \E i \in DOMAIN front : front[i] = last THEN front
             ELSE Append(front, last)

\* variant: the id list is left as it was
KeptIds(parsed, id) == parsed
\* parsed.filter((x) => x !== id) of removeQuoteLocal
WithoutId(parsed, id) == SelectSeq(parsed, LAMBDA x : x # id)

\* next.map((i) => i.id)
IdsOf(next) == [i \in DOMAIN next |-> next[i].id]

\* addQuoteLocal of the listing: the card's item goes to the end of the list
\* and its id into quoteBuilderIds; nothing happens for a user who is no buyer
addQuoteLocal(userRole, payload) ==
    /\ IF ~canUseQuoteBuilder(userRole)
       THEN /\ emitted' = <<>>
            /\ UNCHANGED <<quoteItems, quoteBuilderIds, grouped, quote>>
       ELSE /\ quoteItems' = Append(SelectSeq(quoteItems,
                                        LAMBDA i : i.id # payload.storageItem.id),
                                    payload.storageItem)
            /\ quoteBuilderIds' = ArrayFromSet(Append(quoteBuilderIds, payload.id))
            /\ Render(quoteItems')
            /\ emitted' = <<[type |-> "quoteBuilderUpdated"]>>
    /\ UNCHANGED <<protocol, cart, localStorage, disabled, ids, toggle,
                   builderItems, checkout>>

\* removeQuoteLocal of the listing
removeQuoteLocal(userRole, id) ==
    /\ IF ~canUseQuoteBuilder(userRole)
       THEN /\ emitted' = <<>>
            /\ UNCHANGED <<quoteItems, quoteBuilderIds, grouped, quote>>
       ELSE /\ quoteItems' = SelectSeq(quoteItems, LAMBDA i : i.id # id)
            /\ quoteBuilderIds' = WithoutId(quoteBuilderIds, id)
            /\ Render(quoteItems')
            /\ emitted' = <<[type |-> "quoteBuilderUpdated"]>>
    /\ UNCHANGED <<protocol, cart, localStorage, disabled, ids, toggle,
                   builderItems, checkout>>

\* isInQuoteBuilder of a card, on a listing that has followed the list
isInQuoteBuilder(id) == \E i \in DOMAIN quoteItems : quoteItems[i].id = id

\* "Add to Quote Builder" of a card: onAddToQuote({ id: inv.id, storageItem })
AddToQuote(userRole, inv) ==
    addQuoteLocal(userRole, [id |-> inv.id, storageItem |-> storageItem(inv)])

\* the buyer browses the listing with no conversation open
InitBuckets == InitWith({}, {"seller"})

NextBuckets ==
    \/ \E inv \in Inventory : ~isInQuoteBuilder(inv.id) /\ AddToQuote("buyer", inv)
    \/ \E inv \in Inventory :
           isInQuoteBuilder(inv.id) /\ removeQuoteLocal("buyer", inv.id)

SpecBuckets == InitBuckets /\ [][NextBuckets]_vars

\* ------------------------------------------------- the quote list's caches
\* the list of the quote builder page follows the stored list: the first
\* load, onStorage and onQuoteUpdate each set it to what is stored
onQuoteUpdate ==
    /\ builderItems # quoteItems
    /\ builderItems' = quoteItems
    /\ emitted' = <<>>
    /\ UNCHANGED <<protocol, cart, localStorage, quoteItems, grouped, quote,
                   disabled, ids, toggle, quoteBuilderIds, checkout>>

\* persistItems of QuoteBuilderList: the list and both storage keys
persistItems(next) ==
    /\ builderItems' = next
    /\ quoteItems' = next
    /\ quoteBuilderIds' = IdsOf(next)
    /\ Render(next)
    /\ emitted' = <<>>
    /\ UNCHANGED <<protocol, cart, localStorage, disabled, ids, toggle,
                   checkout>>

isAllSelected == \A i \in DOMAIN builderItems : builderItems[i].isSelected

\* the handlers of the list, which shows its rows when it has an item
handleSelectAll ==
    /\ Len(builderItems) >= 1
    /\ persistItems([i \in DOMAIN builderItems |->
                        [builderItems[i] EXCEPT !.isSelected = ~isAllSelected]])

handleRemoveItem(itemId) ==
    /\ \E i \in DOMAIN builderItems : builderItems[i].id = itemId
    /\ persistItems(SelectSeq(builderItems, LAMBDA i : i.id # itemId))

handleSelect(itemId) ==
    /\ \E i \in DOMAIN builderItems : builderItems[i].id = itemId
    /\ persistItems([i \in DOMAIN builderItems |->
                        IF builderItems[i].id = itemId
                        THEN [builderItems[i] EXCEPT !.isSelected = ~@]
                        ELSE builderItems[i]])

\* the two filters of the buyer scoping effect
scoped(parsed, sellerId, sellerName) ==
    SelectSeq(parsed, LAMBDA i : i.sellerId = sellerId \/ i.sellerCompany = sellerName)

\* variant: what stays is told by the seller's id alone
nextItemsBySellerId(parsed, sellerId, sellerName) ==
    SelectSeq(parsed, LAMBDA i : i.sellerId # sellerId)
nextItems(parsed, sellerId, sellerName) ==
    SelectSeq(parsed, LAMBDA i : i.sellerId # sellerId /\ i.sellerCompany # sellerName)

\* the buyer scoping effect of the wrapper, run for the props sellerId and
\* sellerName: localStorage[p] is the key negotiationItems_${conversationId}
BuyerScopingEffect(p, sellerId, sellerName) ==
    IF ~isBuyer(p) \/ sellerId = ""
    THEN /\ emitted' = <<>>
         /\ UNCHANGED <<localStorage, quoteItems, quoteBuilderIds, grouped, quote>>
    ELSE /\ localStorage' = IF Len(scoped(quoteItems, sellerId, sellerName)) > 0
                            THEN [localStorage EXCEPT ![p] =
                                      scoped(quoteItems, sellerId, sellerName)]
                            ELSE localStorage
         /\ IF Len(nextItems(quoteItems, sellerId, sellerName)) # Len(quoteItems)
            THEN /\ quoteItems' = nextItems(quoteItems, sellerId, sellerName)
                 /\ quoteBuilderIds' = SelectSeq(IdsOf(quoteItems'), LAMBDA x : x # "")
                 /\ Render(quoteItems')
                 /\ emitted' = <<[type |-> "quoteBuilderUpdated"]>>
            ELSE /\ emitted' = <<>>
                 /\ UNCHANGED <<quoteItems, quoteBuilderIds, grouped, quote>>

\* the page /my-negotiations/${conversationId}?seller=${sellerQuery} opens in
\* session p, and the wrapper's effects of the first render run
OpenConversation(p, conversationId, sellerQuery) ==
    /\ p \notin mounted
    /\ Route(p, conversationId, sellerQuery)
    /\ BuyerScopingEffect(p, page'.sellerId, page'.sellerName)
    /\ UNCHANGED <<role, clock, local, edits, puts, polls, cart, disabled,
                   conversationIds, toggle, builderItems, checkout>>

\* the vehicles on the listing while the caches are followed: one of Acme
\* that comes without its owner's id, and one of Bravo with it
CacheInventory ==
    {inv \in Inventory : inv.id \in {"v3", "v5"}}

\* the conversation the buyer has with Bravo's owner, and an address whose
\* conversationId has no second piece
CacheConversationIds ==
    {createConversationId(<<"b1">>, <<"s2">>, <<"v5">>, <<"u2">>), <<"b1">>}

SellerQueries == {"", "Acme"}

\* nobody has a conversation open, the caches are empty
InitCache == InitWith({}, {"seller"})

\* the listing (open to a buyer or to another user, and not always following
\* the list), the builder page and the conversation page, in any order
NextCache ==
    \/ \E userRole \in {"buyer", "seller", ""}, inv \in CacheInventory :
           AddToQuote(userRole, inv)
    \/ \E userRole \in {"buyer", "seller", ""}, inv \in CacheInventory :
           removeQuoteLocal(userRole, inv.id)
    \/ onQuoteUpdate
    \/ handleSelectAll
    \/ \E inv \in CacheInventory : handleRemoveItem(inv.id)
    \/ \E inv \in CacheInventory : handleSelect(inv.id)
    \/ \E p \in Party, conversationId \in CacheConversationIds,
          sellerQuery \in SellerQueries :
           mounted = {} /\ OpenConversation(p, conversationId, sellerQuery)
    \/ \E p \in mounted : LeavePage(p)

SpecCache == InitCache /\ [][NextCache]_vars

\* --------------------------------------------------- checkout of the cart
\* what the cart hands to handleCheckout: the cart ids of its items and the
\* conversation ids of its negotiation orders
CheckoutPayloads ==
    {[items |-> <<>>, negotiationOrders |-> <<>>],
     [items |-> <<"c1">>, negotiationOrders |-> <<"n1">>],
     [items |-> <<"c1", "c2">>, negotiationOrders |-> <<"n1", "n2">>]}

\* a request or a navigation of invocation r
Call(r, kind, arg) == [run |-> r, kind |-> kind, arg |-> arg]

\* payload.items.map(item => api.delete(removeCart, cartId)) : one request
\* for each item, all made before the first answer is awaited
removeCartCalls(r, items) ==
    [i \in DOMAIN items |-> Call(r, "removeCart", items[i])]

\* variant: any answer of the checkout-email POST counts as sent
resAnswered(outcome) == outcome # "throw"
\* res.ok of the checkout-email POST
resOk(outcome) == outcome = "ok"

\* the finally block, after a return, after the catch or after the push
Finally(r, run) ==
    /\ checkoutRuns' = [checkoutRuns EXCEPT ![r] = [run EXCEPT !.at = "done"]]
    /\ checkoutLoading' = FALSE

\* the step touches the cart page only
CheckoutOnly ==
    /\ emitted' = <<>>
    /\ UNCHANGED <<protocol, cart, localStorage, quoteItems, grouped, quote,
                   disabled, ids, toggle, caches>>

\* handleCheckout up to its first await
handleCheckout(r, payload) ==
    /\ checkoutRuns[r].at = "idle"
    /\ IF r = 1 THEN TRUE ELSE checkoutRuns[r - 1].at # "idle"
    /\ checkoutLoading' = TRUE
    /\ checkoutRuns' = [checkoutRuns EXCEPT ![r] =
                            [@ EXCEPT !.at = "getUserInfoByToken",
                                      !.payload = payload]]
    /\ calls' = Append(calls, Call(r, "getUserInfoByToken", ""))
    /\ CheckoutOnly

\* the for loop over payload.negotiationOrders from its next order on, then
\* the removeCart requests
AfterOrder(r, run) ==
    IF run.issued < Len(run.payload.negotiationOrders)
    THEN /\ calls' = Append(calls, Call(r, "negotiation-orders",
                                run.payload.negotiationOrders[run.issued + 1]))
         /\ checkoutRuns' = [checkoutRuns EXCEPT ![r] =
                [run EXCEPT !.at = "negotiation-orders", !.issued = @ + 1]]
         /\ UNCHANGED checkoutLoading
    ELSE /\ calls' = calls \o removeCartCalls(r, run.payload.items)
         /\ checkoutRuns' = [checkoutRuns EXCEPT ![r] =
                [run EXCEPT !.at = "removeCart"]]
         /\ UNCHANGED checkoutLoading

\* getUserInfoByToken answers with an email, without one, or throws
getUserInfoByTokenSettles(r, outcome) ==
    /\ checkoutRuns[r].at = "getUserInfoByToken"
    /\ IF outcome = "throw" \/ outcome = ""
       THEN /\ Finally(r, checkoutRuns[r])
            /\ UNCHANGED calls
       ELSE /\ checkoutRuns' = [checkoutRuns EXCEPT ![r] =
                   [@ EXCEPT !.at = "checkout-email", !.buyerEmail = outcome]]
            /\ calls' = Append(calls, Call(r, "checkout-email", outcome))
            /\ UNCHANGED checkoutLoading
    /\ CheckoutOnly

\* the checkout-email POST answers OK, answers otherwise, or fails
checkoutEmailSettles(r, outcome) ==
    /\ checkoutRuns[r].at = "checkout-email"
    /\ IF outcome = "throw"
       THEN /\ Finally(r, checkoutRuns[r])
            /\ UNCHANGED calls
       ELSE IF ~resOk(outcome)
       THEN /\ Finally(r, [checkoutRuns[r] EXCEPT !.res = outcome])
            /\ UNCHANGED calls
       ELSE AfterOrder(r, [checkoutRuns[r] EXCEPT !.res = outcome])
    /\ CheckoutOnly

\* a negotiation-orders POST answers (its status is not looked at) or fails
negotiationOrderSettles(r, outcome) ==
    /\ checkoutRuns[r].at = "negotiation-orders"
    /\ IF outcome = "throw"
       THEN /\ Finally(r, checkoutRuns[r])
            /\ UNCHANGED calls
       ELSE AfterOrder(r, checkoutRuns[r])
    /\ CheckoutOnly

\* Promise.allSettled of the removeCart requests, then router.push
removeCartSettles(r) ==
    /\ checkoutRuns[r].at = "removeCart"
    /\ calls' = Append(calls, Call(r, "push", "/buyer/orders"))
    /\ Finally(r, checkoutRuns[r])
    /\ CheckoutOnly

\* the cart page, nothing else open
InitCheckout == InitWith({}, {"seller"})

NextCheckout ==
    \/ \E r \in 1..MaxCheckouts, payload \in CheckoutPayloads :
           handleCheckout(r, payload)
    \/ \E r \in 1..MaxCheckouts, outcome \in {"b@x", "", "throw"} :
           getUserInfoByTokenSettles(r, outcome)
    \/ \E r \in 1..MaxCheckouts, outcome \in {"ok", "failed", "throw"} :
           checkoutEmailSettles(r, outcome)
    \/ \E r \in 1..MaxCheckouts, outcome \in {"answered", "throw"} :
           negotiationOrderSettles(r, outcome)
    \/ \E r \in 1..MaxCheckouts : removeCartSettles(r)

SpecCheckout == InitCheckout /\ [][NextCheckout]_vars



\* ------------------------------------------- seller-side reconciliation
\* variant: a summary without units gets no item
ReconcileItemsSkippingEmpty(bucketSummaries) ==
    SelectSeq([i \in 1..Len(bucketSummaries) |->
                  [bucketKey |-> bucketSummaries[i].key,
                   quantity |-> bucketSummaries[i].totalUnits,
                   price |-> bucketSummaries[i].unitPrice]],
              LAMBDA item : item.quantity > 0)

\* activeProposal.bucketSummaries.map((b) => ({...})): the line item cached
\* for each summary (bucketTotal / totalUnits is exact: see discountedTotal)
ReconcileItems(bucketSummaries) ==
    [i \in 1..Len(bucketSummaries) |->
        LET b == bucketSummaries[i]
            totalUnits == b.totalUnits
            bucketTotal == b.total
            unitPrice == IF totalUnits > 0 THEN bucketTotal \div totalUnits
                         ELSE b.unitPrice
        IN  [bucketKey |-> b.key, quantity |-> totalUnits, price |-> unitPrice]]

\* the effect on [activeProposal, conversationId, isSeller, sellerId,
\* sellerName], past its early returns
ReconcileEffect(p) ==
    /\ isSeller(p) /\ activeProposal[p] # Null
    /\ Len(activeProposal[p].bucketSummaries) # 0
    /\ localStorage' = [localStorage EXCEPT ![p] =
                            ReconcileItems(activeProposal[p].bucketSummaries)]
    /\ emitted' = <<[type |-> "quoteBuilderUpdated"]>>
    /\ UNCHANGED <<protocol, cart, aside>>

\* bucket lists a stored proposal may have been quoted on
ReconcileBucketLists ==
    LET Bucket(key) == {[key |-> key, totalUnits |-> n, unitPrice |-> price] :
                            n \in {0, 2}, price \in {10000, 20000}}
    IN  {<<>>} \cup {<<b>> : b \in Bucket("b1")}
               \cup {<<b, c>> : b \in Bucket("b1"), c \in Bucket("b2")}

\* what the browser cached for the conversation earlier
StaleItems == <<[bucketKey |-> "b0", quantity |-> 1, price |-> 10000]>>

\* One party opens a conversation for which a proposal is stored already.
InitReconcile ==
    \E p \in Party :
        /\ mounted = {p}
        /\ role \in {[q \in Party |-> IF q = "B" THEN "buyer" ELSE r] : r \in SellerRoles}
        /\ \E bucketList \in ReconcileBucketLists, d \in DiscountValues :
              store = JSONparse(JSONstringify(
                        [discountPercent |-> d,
                         finalPrice |-> Calculate(bucketList, d, 10).finalPrice,
                         downpaymentPercent |-> 10,
                         downpaymentAmount |-> Calculate(bucketList, d, 10).downpaymentAmount,
                         remainingBalance |-> Calculate(bucketList, d, 10).remainingBalance,
                         selectedPort |-> PORT_OPTIONS[1],
                         submittedAt |-> 1,
                         bucketSummaries |-> BucketSummaries(bucketList, d),
                         status |-> "buyer_proposed"]))
        /\ clock = 2
        /\ activeProposal = [q \in Party |-> Null]
        /\ uiStatus = [q \in Party |-> "IDLE"]
        /\ isCountering = [q \in Party |-> FALSE]
        /\ isSubmitting = [q \in Party |-> FALSE]
        /\ submissionError = [q \in Party |-> "null"]
        /\ bucketDiscounts = [q \in Party |-> 0]
        /\ downpaymentPercent = [q \in Party |-> 10]
        /\ selectedPort = [q \in Party |-> PORT_OPTIONS[1]]
        /\ puts = [q \in Party |-> {}]
        /\ polls = [q \in Party |-> {}]
        /\ emitted = <<>>
        /\ showCartModal = [q \in Party |-> FALSE]
        /\ cartPost = [q \in Party |-> Null]
        /\ localStorage \in {[q \in Party |-> items] : items \in {<<>>, StaleItems}}
        /\ quoteItems = <<>>
        /\ grouped = <<>>
        /\ quote = Null
        /\ disabled = [q \in Party |-> FALSE]
        /\ conversationIds = <<OpenConversationId>>
        /\ page = MyConversation(OpenConversationId, "")
        /\ shelved = <<>>
        /\ enableRoleToggle = [q \in Party |-> FALSE]
        /\ isRoleToggleEnabled = [q \in Party |-> FALSE]
        /\ demoRole = role
        /\ quoteBuilderIds = <<>>
        /\ builderItems = <<>>
        /\ checkoutLoading = FALSE
        /\ checkoutRuns = [r \in 1..MaxCheckouts |-> NotInvoked]
        /\ calls = <<>>

NextReconcile ==
    \E p \in mounted :
        \/ PollTick(p)
        \/ \E m \in polls[p] : PollResolveOk(p, m)
        \/ \E m \in polls[p] : PollResolveFail(p, m)
        \/ CounterClick(p)
        \/ ReconcileEffect(p)

SpecReconcile == InitReconcile /\ [][NextReconcile]_vars

\* ------------------------------------------------- the selling side
\* role strings of a seller and of a dealer, in several letter cases
DealerRoles == {"seller", "Seller", "dealer", "Dealer", "DEALER"}

\* the selling side has the page open
InitDealer == InitWith({"S"}, DealerRoles)

NextDealer ==
    \/ NextVisible
    \/ \E p \in mounted : ReconcileEffect(p)

SpecDealer == InitDealer /\ [][NextDealer]_vars

\* ================================================================ claims
NewPuts(p) == puts'[p] \ puts[p]

\* p wrote the proposal that is pending, and p's page shows exactly it
AuthorOfPending(p) ==
    /\ activeProposal[p] # Null
    /\ activeProposal[p] = store
    /\ \/ isBuyer(p) /\ store.status \in BuyerStatuses
       \/ isSeller(p) /\ store.status = "seller_countered"

\* C1: the author of the pending proposal can neither accept nor counter it:
\* while a session shows its own pending proposal, no step issues a proposal
\* put of that session.
C1_TurnGuard ==
    [][\A p \in Party : AuthorOfPending(p) => NewPuts(p) = {}]_vars

\* C2: once the store holds a seller_accepted proposal, no step changes the
\* stored proposal.
C2_AcceptedIsTerminal ==
    [][store.status = "seller_accepted" => store' = store]_vars

\* C3: from IDLE the only write is a buyer's submit with status
\* buyer_proposed, and a seller or dealer that has no proposal loaded while
\* none is stored issues no put.
C3_IdleOnlyBuyerSubmits ==
    [][/\ store = Null => (store' = Null \/ store'.status = "buyer_proposed")
       /\ \A p \in Party :
            (store = Null /\ activeProposal[p] = Null /\ isSeller(p))
                => NewPuts(p) = {}]_vars

\* C4: when the put of a submit / counter fails, the store is unchanged, the
\* session's activeProposal is the one it had, the failure is reported and
\* no further put is issued.
C4_FailedSubmitKeepsState ==
    [][\A p \in Party : \A m \in puts[p] :
         SubmitResolve(p, m, FALSE) =>
            /\ store' = store
            /\ activeProposal'[p] = activeProposal[p]
            /\ submissionError'[p] # "null"
            /\ NewPuts(p) = {}]_vars

\* C5: when the put of an accept fails, the session's activeProposal keeps
\* its previous status (it does not show seller_accepted) and the store is
\* unchanged.
C5_FailedAcceptRollsBack ==
    [][\A p \in Party : \A m \in puts[p] :
         AcceptResolve(p, m, FALSE) =>
            /\ store' = store
            /\ activeProposal'[p] = activeProposal[p]]_vars

\* the transition table of the negotiation state machine
LegalStep(from, to) ==
    \/ from = "null" /\ to = "buyer_proposed"
    \/ from = "buyer_proposed" /\ to \in {"seller_countered", "seller_accepted"}
    \/ from = "seller_countered" /\ to \in {"buyer_countered", "seller_accepted"}
    \/ from = "buyer_countered" /\ to \in {"seller_countered", "seller_accepted"}

\* C6: every status written over a stored proposal is the table's next
\* state, so the statuses stored for the conversation follow BUYER_PROPOSED
\* -> (SELLER_COUNTERED <-> BUYER_COUNTERED)* -> SELLER_ACCEPTED and never
\* step back to buyer_proposed after a counter.  (The row of IDLE is C3.)
C6_StatusesFollowTable ==
    [][(store # Null /\ store' # store)
          => LegalStep(store.status, store'.status)]_vars

\* C8: a session has at most one proposal put (of a submit / counter or of
\* an accept) in flight.
C8_OnePutInFlight ==
    \A p \in Party : Cardinality(puts[p]) <= 1

Figures(proposal) ==
    <<proposal.discountPercent, proposal.downpaymentPercent,
      proposal.selectedPort>>

C9_CounterEditsSurvivePolls ==
    [][\A p \in Party : \A m \in polls[p] :
         (isCountering[p] /\ (PollResolveOk(p, m) \/ PollResolveFail(p, m)))
            => /\ bucketDiscounts'[p] = bucketDiscounts[p]
               /\ downpaymentPercent'[p] = downpaymentPercent[p]
               /\ selectedPort'[p] = selectedPort[p]]_vars

\* a session in counter mode has loaded, by a poll completed in counter mode
\* (the status seller_accepted offers no "Counter offer"), a stored proposal
\* whose three figures all differ from its local edits, while a poll started
\* before counter mode is still awaited
C9_Witness ==
    \E p \in mounted :
        /\ isCountering[p]
        /\ activeProposal[p] = store
        /\ store.status = "seller_accepted"
        /\ store.discountPercent # bucketDiscounts[p]
        /\ store.downpaymentPercent # downpaymentPercent[p]
        /\ store.selectedPort # selectedPort[p]
        /\ \E m \in polls[p] : ~m.isActive

InSync(p) ==
    activeProposal[p] = store /\ uiStatus[p] = "BUYER_PROPOSED"

\* the put that wrote the stored proposal (0: nothing stored)
StoredAt == IF store = Null THEN 0 ELSE store.submittedAt

\* C10: a proposal that was put and is not replaced by a later put is
\* eventually what the open session shows (activeProposal equals the stored
\* proposal, uiStatus BUYER_PROPOSED), given that its polls keep completing;
\* and a session's activeProposal changes only when one of its polls
\* completes or one of its own submits / accepts resolves.
C10_CrossPartyVisibility ==
    /\ [][\A p \in Party :
            activeProposal'[p] # activeProposal[p] =>
                \/ \E m \in polls[p] : PollResolveOk(p, m)
                \/ \E m \in puts[p], ok \in BOOLEAN :
                        SubmitResolve(p, m, ok) \/ AcceptResolve(p, m, ok)]_vars
    /\ \A p \in Party : \A t \in 1..MaxClock :
            (p \in mounted /\ StoredAt = t) ~> (InSync(p) \/ StoredAt # t)

\* the counterpart stored a proposal and the open session, which did not
\* act, shows it
C10_Witness ==
    \E p \in mounted :
        /\ store # Null
        /\ InSync(p)
        /\ clock = 2
        /\ puts[p] = {}
        /\ ~isSubmitting[p] /\ ~isCountering[p]

\* a put of session p has just been stored
Stored(p, m) == SubmitResolve(p, m, TRUE) \/ AcceptResolve(p, m, TRUE)

RECURSIVE ItemsValue(_)
ItemsValue(items) ==
    IF items = <<>> THEN 0
    ELSE Head(items).quantity * Head(items).price + ItemsValue(Tail(items))

\* the totals of bucket summaries summed
RECURSIVE SummariesTotal(_)
SummariesTotal(summaries) ==
    IF summaries = <<>> THEN 0
    ELSE Head(summaries).total + SummariesTotal(Tail(summaries))

C13_CartOnlyAfterAcceptance ==
    [][\A p \in Party :
         addNegotiationToCart(p) =>
            /\ isBuyer(p)
            /\ activeProposal[p].status = "seller_accepted"]_vars

\* C14: the step that persists a transition (the put of a submit, a counter
\* or an accept succeeded) dispatches exactly one event, carrying the discount
\* percent, final price and down-payment percent of the proposal stored, and
\* the step that ends a failed put dispatches none.
C14_OneEventPerTransition ==
    [][\A p \in Party : \A m \in puts[p] :
         /\ Stored(p, m) => emitted' = <<proposalSubmitted(m.proposal)>>
         /\ (SubmitResolve(p, m, FALSE) \/ AcceptResolve(p, m, FALSE))
                => emitted' = <<>>]_vars

\* C15: a submit / counter whose index upsert fails does what one whose
\* upsert succeeds does: it issues the proposal put, marks the session
\* submitting and reports no error; the outcome of that put then alone
\* decides store, activeProposal, uiStatus and submissionError.  Starting a
\* negotiation with a failing upsert opens the conversation page all the
\* same.
C15_IndexUpsertBestEffort ==
    [][\A p \in Party : \A indexOk \in BOOLEAN :
         /\ handleSubmitProposal(p, ProposalData(p), indexOk) =>
              /\ NewPuts(p) = {[kind |-> "submit",
                                proposal |-> SubmitProposal(p, ProposalData(p))]}
              /\ isSubmitting'[p]
              /\ store' = store
              /\ activeProposal' = activeProposal /\ uiStatus' = uiStatus
              /\ submissionError' = submissionError
         /\ handleNegotiatePrice(p, "buyer", indexOk, DefaultStart) =>
              /\ mounted' = mounted \cup {p}
              /\ UNCHANGED <<store, local, edits, puts, polls>>]_vars

\* a session that shows the counterpart's counter has, in counter mode,
\* issued the put of its own counter although the index upsert fired with it
\* fails
C15_Witness ==
    \E p \in mounted :
        /\ emitted # <<>> /\ emitted[1].type = "negotiation-index"
        /\ emitted[1].settles = "failed"
        /\ puts[p] # {} /\ isSubmitting[p]
        /\ store # Null /\ store.status = "seller_countered"
        /\ activeProposal[p] = store /\ isCountering[p]

\* the validation rule of a proposal's input
ValidProposalInput(proposalData) ==
    /\ proposalData.discountPercent \in 0..30
    /\ proposalData.downpaymentPercent \in 10..100
    /\ Len(proposalData.bucketSummaries) > 0

\* C16: a submit of a quote whose discount is outside [0,30], whose down
\* payment is outside [10,100] or that has no bucket issues neither a put nor
\* an index upsert and changes neither activeProposal, uiStatus nor the
\* store.
C16_InvalidInputRejected ==
    [][\A p \in Party : \A proposalData \in SubmittedQuotes :
         (/\ ~ValidProposalInput(proposalData)
          /\ \E indexOk \in BOOLEAN : handleSubmitProposal(p, proposalData, indexOk))
            => /\ NewPuts(p) = {}
               /\ emitted' = <<>>
               /\ UNCHANGED <<activeProposal, uiStatus, store>>]_vars

\* the three amounts of a payment split
SplitHolds(price, downpayment, remaining) ==
    /\ downpayment + remaining = price
    /\ price >= 0 /\ downpayment >= 0 /\ remaining >= 0

ProposalSplitHolds(proposal) ==
    SplitHolds(proposal.finalPrice, proposal.downpaymentAmount,
               proposal.remainingBalance)

Reorderings(list) ==
    {[i \in DOMAIN list |-> list[f[i]]] : f \in Permutations(DOMAIN list)}

\* key, totalUnits and total (totalUnits x unitPrice) of each bucket
BucketTotals(bucketList) ==
    {<<bucketList[i].key, bucketList[i].totalUnits,
       bucketList[i].totalUnits * bucketList[i].unitPrice>> : i \in DOMAIN bucketList}

\* C18: for the line items the panel has grouped and every permutation of
\* them, groupBuckets yields the same bucket keys, the same totalUnits per
\* bucket and the same per-bucket total totalUnits x unitPrice, hence the
\* same originalTotal (items sharing a bucketKey may differ in price).
C18_OrderIndependent ==
    grouped # <<>> =>
        \A list \in Reorderings(sellerItems(quoteItems, PanelSeller)) :
            /\ BucketTotals(groupBuckets(list)) = BucketTotals(grouped.buckets)
            /\ originalTotal(groupBuckets(list)) = quote.originalTotal

\* quantity, and quantity x price, summed over the items with a grouping key
RECURSIVE KeyUnits(_, _)
KeyUnits(list, key) ==
    IF list = <<>> THEN 0
    ELSE (IF buildBucketKey(Head(list)) = key THEN Head(list).quantity ELSE 0)
            + KeyUnits(Tail(list), key)

RECURSIVE KeyValue(_, _)
KeyValue(list, key) ==
    IF list = <<>> THEN 0
    ELSE (IF buildBucketKey(Head(list)) = key
          THEN Head(list).quantity * Head(list).price ELSE 0)
            + KeyValue(Tail(list), key)

\* one bucket per distinct grouping key of the list, none twice
OneBucketPerKey(bucketList, list) ==
    /\ \A i, j \in DOMAIN bucketList :
           bucketList[i].key = bucketList[j].key => i = j
    /\ {bucketList[i].key : i \in DOMAIN bucketList}
           = {buildBucketKey(list[i]) : i \in DOMAIN list}

\* the panel's buckets partition the panel seller's items
PanelPartition ==
    LET list == sellerItems(quoteItems, PanelSeller)
    IN  /\ OneBucketPerKey(grouped.buckets, list)
        /\ \A i \in DOMAIN grouped.buckets :
               grouped.buckets[i].totalUnits = KeyUnits(list, grouped.buckets[i].key)

\* the builder's seller groups partition the list, seller by seller
BuilderPartition ==
    /\ \A s, t \in DOMAIN grouped.sellers :
           grouped.sellers[s].sellerCompany = grouped.sellers[t].sellerCompany => s = t
    /\ {grouped.sellers[s].sellerCompany : s \in DOMAIN grouped.sellers}
           = {quoteItems[i].sellerCompany : i \in DOMAIN quoteItems}
    /\ \A s \in DOMAIN grouped.sellers :
        LET group == grouped.sellers[s]
            list == sellerItems(quoteItems, group.sellerCompany)
        IN  /\ OneBucketPerKey(group.buckets, list)
            /\ \A i \in DOMAIN list :
                   \E b \in DOMAIN group.buckets :
                       /\ buildBucketKey(list[i]) = group.buckets[b].key
                       /\ \E k \in DOMAIN group.buckets[b].items :
                              group.buckets[b].items[k] = list[i]
                       /\ \A c \in DOMAIN group.buckets :
                              (\E k \in DOMAIN group.buckets[c].items :
                                   group.buckets[c].items[k] = list[i]) => c = b
            /\ \A b \in DOMAIN group.buckets :
                   /\ group.buckets[b].totalUnits
                          = KeyUnits(list, group.buckets[b].key)
                   /\ Len(group.buckets[b].items)
                          = Cardinality({i \in DOMAIN list :
                                buildBucketKey(list[i]) = group.buckets[b].key})

\* each bucket's totalUnits x unit price is the sum of quantity x price over
\* its items
BucketTotalsExact ==
    /\ \A i \in DOMAIN grouped.buckets :
           grouped.buckets[i].totalUnits * grouped.buckets[i].unitPrice
               = KeyValue(sellerItems(quoteItems, PanelSeller), grouped.buckets[i].key)
    /\ \A s \in DOMAIN grouped.sellers : \A b \in DOMAIN grouped.sellers[s].buckets :
           LET bucket == grouped.sellers[s].buckets[b]
           IN  bucket.totalUnits * bucket.price
                   = KeyValue(sellerItems(quoteItems, grouped.sellers[s].sellerCompany),
                              bucket.key)

\* C19: groupBuckets and groupBySellerAndBucket produce exactly one bucket
\* per distinct grouping key (per seller), every item belongs to exactly one
\* bucket, each bucket's totalUnits is the sum of quantity over the items
\* with its key, and its total totalUnits x unitPrice is the sum of
\* quantity x price over those items.
C19_BucketPartition ==
    grouped # <<>> => PanelPartition /\ BuilderPartition /\ BucketTotalsExact

\* a proposal of the scenario: one bucket of 3 units at 10,000, discount
\* 10 %, down payment 20 %
ScenarioProposal(proposal) ==
    /\ proposal.discountPercent = 10
    /\ proposal.downpaymentPercent = 20
    /\ Len(proposal.bucketSummaries) = 1
    /\ proposal.bucketSummaries[1].totalUnits = 3
    /\ proposal.bucketSummaries[1].unitPrice = 10000

ScenarioFigures(proposal) ==
    /\ proposal.bucketSummaries[1].total = 30000
    /\ proposal.finalPrice = 27000
    /\ proposal.downpaymentAmount = 5400
    /\ proposal.remainingBalance = 21600
    /\ discountAmount(proposal.bucketSummaries[1].total, proposal.discountPercent) = 3000
    /\ finalPrice(proposal.bucketSummaries[1].total, proposal.discountPercent) = 27000

\* C20: a proposal for a single bucket of 3 units at unit price 10,000 with
\* discount 10 % and down payment 20 %, as submitted and as stored, has
\* bucket total 30,000, final price 27,000, down payment 5,400 and remaining
\* balance 21,600 (the bucket card shows the same final price).
C20_PricingScenario ==
    /\ \A p \in Party : \A m \in puts[p] :
           ScenarioProposal(m.proposal) => ScenarioFigures(m.proposal)
    /\ (store # Null /\ ScenarioProposal(store)) => ScenarioFigures(store)

\* the buyer's submit of the scenario is stored as buyer_proposed
C20_Witness ==
    /\ store # Null
    /\ ScenarioProposal(store)
    /\ store.status = "buyer_proposed"
    /\ bucketDiscounts["B"] = 10 /\ downpaymentPercent["B"] = 20
    /\ puts["B"] = {}

\* the conversation id made by the step
NewConversationId == conversationIds'[Len(conversationIds')]

\* C21: a negotiation start builds the conversationId as
\* buyerId_sellerId_itemId_uniqueToken; the id of every start differs from
\* the ids of all earlier starts (so also from an earlier start by the same
\* buyer for the same seller and vehicle), and the new conversation begins
\* with no stored proposal.
C21_FreshConversationId ==
    [][conversationIds' # conversationIds =>
          /\ \E userId \in UserIds, peerId \in PeerIds, vehicleId \in VehicleIds,
                token \in RandomUUIDs \cup FallbackTokens :
                 NewConversationId
                     = createConversationId(userId, peerId, vehicleId, token)
          /\ \A i \in DOMAIN conversationIds : conversationIds[i] # NewConversationId
          /\ store' = Null]_vars

\* what a user with the role seller may do and does, written without the
\* role: accept and counter what the buyer proposed, write the reconciled
\* items, and put nothing but seller_countered and seller_accepted
SellerBehaviour(p) ==
    /\ isSeller(p) /\ ~isBuyer(p)
    /\ AcceptButtonShown(p) <=>
           (activeProposal[p] # Null /\ activeProposal[p].status \in BuyerStatuses)
    /\ CounterButtonShown(p) <=>
           (activeProposal[p] # Null /\ activeProposal[p].status # "seller_accepted")
    /\ (ENABLED ReconcileEffect(p)) <=>
           (activeProposal[p] # Null /\ Len(activeProposal[p].bucketSummaries) # 0)
    /\ \A m \in puts[p] :
           m.proposal.status = (IF m.kind = "accept" THEN "seller_accepted"
                                ELSE "seller_countered")
    /\ \A i \in DOMAIN emitted :
           emitted[i].type = "negotiation-index" => emitted[i].roleType = "seller"

\* C22: in every state a user whose role is dealer, in any letter case, has
\* the enabled actions (accept, counter, reconciliation write) and produces
\* the statuses of a user whose role is seller.
C22_DealerIsSeller ==
    \A p \in mounted : role[p] \in DealerRoles => SellerBehaviour(p)

\* a user with the role DEALER shows the buyer's proposal, has written its
\* items to the storage and has the put of its acceptance under way
C22_Witness ==
    /\ role["S"] = "DEALER" /\ "S" \in mounted
    /\ activeProposal["S"] # Null /\ activeProposal["S"].status = "buyer_proposed"
    /\ AcceptButtonShown("S")
    /\ localStorage["S"] # <<>>
    /\ \E m \in puts["S"] : m.kind = "accept" /\ m.proposal.status = "seller_accepted"

\* the pricing fields of a proposal
Pricing(proposal) ==
    <<proposal.discountPercent, proposal.finalPrice, proposal.downpaymentPercent,
      proposal.downpaymentAmount, proposal.remainingBalance, proposal.bucketSummaries>>

\* C23: the proposal an accept stores with status seller_accepted carries
\* the pricing fields of the proposal that is in the store when the put is
\* applied; an accept of a locally cached proposal never replaces a newer
\* proposal the other party stored after the accepting session's last poll.
C23_NoStaleAccept ==
    [][\A p \in Party : \A m \in puts[p] :
         AcceptResolve(p, m, TRUE) =>
             /\ store # Null
             /\ Pricing(m.proposal) = Pricing(store)]_vars

\* C24: a user whose role is neither buyer nor seller / dealer (admin, or no
\* role) never causes a proposal put or an accept for the conversation.
C24_OnlyParticipantsWrite ==
    [][\A p \in Party :
         (~isBuyer(p) /\ ~isSeller(p)) => NewPuts(p) = {}]_vars

\* the role the server supplied decides
ServerRoleDecides(p) ==
    /\ effectiveRole(p) = role[p]
    /\ isBuyer(p) <=> toLowerCase(role[p]) = "buyer"
    /\ isSeller(p) <=> toLowerCase(role[p]) \in {"seller", "dealer"}
    /\ \A m \in puts[p] :
           m.kind = "submit" =>
               m.proposal.status \in (IF toLowerCase(role[p]) = "buyer"
                                      THEN BuyerStatuses ELSE {"seller_countered"})

\* C25: on a page that does not set enableRoleToggle, the effective role of
\* every guard and of the status selection is the server-supplied role in
\* every reachable state, whatever double taps on the final price occur; the
\* "View as" buttons never show, so no demo role is picked.
C25_RoleToggleInert ==
    \A p \in mounted :
        ~enableRoleToggle[p] =>
            /\ ServerRoleDecides(p)
            /\ ~ViewAsShown(p)
            /\ demoRole[p] = role[p]

\* after a double tap on a page without enableRoleToggle the seller's
\* session has put a counter as the seller it is
C25_Witness ==
    /\ mounted = {"S"} /\ ~enableRoleToggle["S"] /\ isRoleToggleEnabled["S"]
    /\ \E m \in puts["S"] : m.kind = "submit" /\ m.proposal.status = "seller_countered"

\* C26: for every buyerId, peerId and vehicleId, the sellerId the
\* conversation page derives from the conversationId (its second piece
\* between "_") is the peerId the conversation was created with by
\* createConversationId.
C26_SellerIdRoundTrip ==
    [][\A userId \in UserIds, peerId \in PeerIds, vehicleId \in VehicleIds :
         \A token \in RandomUUIDs \cup FallbackTokens :
            (\E p \in Party, indexOk \in BOOLEAN :
                 handleNegotiatePrice(p, "buyer", indexOk,
                     [userId |-> userId, peerId |-> peerId,
                      vehicleId |-> vehicleId, token |-> token]))
              => /\ page'.conversationId
                        = createConversationId(userId, peerId, vehicleId, token)
                 /\ <<page'.sellerId>> = peerId]_vars

\* the items of a list, and how often one occurs in it
ItemsOf(list) == {list[i] : i \in DOMAIN list}
Occurrences(list, item) == Cardinality({i \in DOMAIN list : list[i] = item})

\* an item of the seller of the page that opens: by its sellerId or by its
\* sellerCompany
OfPageSeller(item, opened) ==
    item.sellerId = opened.sellerId \/ item.sellerCompany = opened.sellerName

\* C27: when a buyer opens a conversation whose id names a seller and the
\* stored quote list holds items of that seller (by sellerId or by
\* sellerCompany), then afterwards negotiationItems of the conversation and
\* the remaining quote list partition the previous list (every previous
\* item is in exactly one of the two, nothing else is in either, the moved
\* ones are the seller's) and quoteBuilderIds lists the ids of the remaining
\* items; when no item matches, none of the storage keys is written.
C27_ScopingPartitions ==
    [][\A p \in Party, conversationId \in CacheConversationIds,
          sellerQuery \in SellerQueries :
          (isBuyer(p) /\ OpenConversation(p, conversationId, sellerQuery))
            => IF /\ page'.sellerId # ""
                  /\ \E item \in ItemsOf(quoteItems) : OfPageSeller(item, page')
               THEN /\ \A item \in ItemsOf(quoteItems) :
                          Occurrences(localStorage'[p], item)
                            + Occurrences(quoteItems', item)
                              = Occurrences(quoteItems, item)
                    /\ ItemsOf(localStorage'[p]) \cup ItemsOf(quoteItems')
                          \subseteq ItemsOf(quoteItems)
                    /\ ItemsOf(localStorage'[p]) \cap ItemsOf(quoteItems') = {}
                    /\ \A item \in ItemsOf(localStorage'[p]) :
                          OfPageSeller(item, page')
                    /\ \A item \in ItemsOf(quoteItems') :
                          ~OfPageSeller(item, page')
                    /\ quoteBuilderIds' = [i \in DOMAIN quoteItems' |-> quoteItems'[i].id]
               ELSE UNCHANGED <<localStorage, quoteItems, quoteBuilderIds>>]_vars

\* the buyer has opened the conversation with Bravo's owner: Bravo's item
\* was moved to the conversation's key and Acme's stayed on the list
C27_Witness ==
    /\ "B" \in mounted /\ page.sellerId = "s2"
    /\ emitted = <<[type |-> "quoteBuilderUpdated"]>>
    /\ \E i \in DOMAIN localStorage["B"] : localStorage["B"][i].id = "v5"
    /\ \E i \in DOMAIN quoteItems : quoteItems[i].id = "v3"
    /\ \A i \in DOMAIN quoteItems : quoteItems[i].id # "v5"

\* the listing's add or remove, by a user whose role is not buyer
ListingClickByOther ==
    \E userRole \in {"seller", ""}, inv \in CacheInventory :
        AddToQuote(userRole, inv) \/ removeQuoteLocal(userRole, inv.id)

\* C28: starting from an empty cache, after any sequence of addQuoteLocal,
\* removeQuoteLocal, the list's select, select-all and remove, and the buyer
\* scoping effect, the ids in quoteBuilderIds are the ids of the entries of
\* quoteBuilderItems, and quoteBuilderItems has at most one entry for an id;
\* addQuoteLocal and removeQuoteLocal by a user who is not a buyer change
\* neither key.
C28_CacheConsistent ==
    /\ [](/\ {quoteBuilderIds[i] : i \in DOMAIN quoteBuilderIds}
               = {quoteItems[i].id : i \in DOMAIN quoteItems}
          /\ \A i, j \in DOMAIN quoteItems :
                quoteItems[i].id = quoteItems[j].id => i = j)
    /\ [][ListingClickByOther => UNCHANGED <<quoteItems, quoteBuilderIds>>]_vars

\* after the listing, the scoping effect and the builder's list have all
\* written: both vehicles are on the list and in the id cache, the last one
\* unselected, and the conversation's key holds what was moved before
C28_Witness ==
    /\ Len(quoteItems) = 2 /\ Len(quoteBuilderIds) = 2
    /\ ~quoteItems[2].isSelected
    /\ Len(localStorage["B"]) >= 1

\* positions in calls of the requests of one kind made by invocation r
CallsOf(r, kind) ==
    {i \in DOMAIN calls : calls[i].run = r /\ calls[i].kind = kind}
CallsThenOf(r, kind) ==
    {i \in DOMAIN calls' : calls'[i].run = r /\ calls'[i].kind = kind}

\* what holds of the requests made so far by invocation r
CheckoutOrdered(r) ==
    LET run == checkoutRuns[r]
        orders == CallsOf(r, "negotiation-orders")
        removals == CallsOf(r, "removeCart")
        pushes == CallsOf(r, "push")
    IN  /\ (orders \cup removals # {})
              => /\ run.buyerEmail # "" /\ run.res = "ok"
                 /\ \A i \in orders \cup removals :
                       \E e \in CallsOf(r, "checkout-email") : e < i
        /\ \A i \in orders, j \in removals : i < j
        /\ removals # {}
              => /\ Cardinality(orders) = Len(run.payload.negotiationOrders)
                 /\ run.at \in {"removeCart", "done"}
        /\ pushes # {}
              => /\ Cardinality(orders) = Len(run.payload.negotiationOrders)
                 /\ Cardinality(removals) = Len(run.payload.items)
                 /\ \A i \in orders \cup removals, j \in pushes : i < j
                 /\ run.buyerEmail # "" /\ run.res = "ok"
                 /\ run.at = "done"

\* a step in which invocation r makes a negotiation-orders POST makes one,
\* for the next order of the payload, and makes it when the POST before it
\* has answered
OrdersOneByOne(r) ==
    LET before == Cardinality(CallsOf(r, "negotiation-orders"))
        after == Cardinality(CallsThenOf(r, "negotiation-orders"))
    IN  after # before
          => /\ after = before + 1
             /\ calls'[Len(calls')]
                  = Call(r, "negotiation-orders",
                         checkoutRuns[r].payload.negotiationOrders[after])
             /\ IF before = 0 THEN checkoutRuns[r].at = "checkout-email"
                ELSE /\ checkoutRuns[r].at = "negotiation-orders"
                     /\ negotiationOrderSettles(r, "answered")

\* C29: handleCheckout makes no negotiation-orders POST and no removeCart
\* call unless a buyer email was found and the checkout-email POST answered
\* OK; the negotiation-orders POSTs are made one after another, all of them
\* before any removeCart call; the push to the orders page comes after both;
\* and when an invocation of handleCheckout finishes, on whichever path,
\* checkoutLoading is false.
C29_CheckoutOrdering ==
    /\ [](\A r \in 1..MaxCheckouts : CheckoutOrdered(r))
    /\ [][\A r \in 1..MaxCheckouts :
             /\ OrdersOneByOne(r)
             /\ (checkoutRuns[r].at # "done" /\ checkoutRuns'[r].at = "done")
                   => ~checkoutLoading']_vars

\* one checkout went through with two orders and two cart items, another
\* one ended at a checkout-email POST that did not answer OK
C29_Witness ==
    /\ checkoutRuns[1].at = "done" /\ checkoutRuns[2].at = "done"
    /\ checkoutRuns[2].res = "failed"
    /\ Cardinality(CallsOf(1, "negotiation-orders")) = 2
    /\ Cardinality(CallsOf(1, "removeCart")) = 2
    /\ CallsOf(1, "push") # {}
    /\ ~checkoutLoading

\* the submit of session p whose put has neither resolved nor rejected yet
SubmitInFlight(p) == {m \in puts[p] : m.kind = "submit"}

\* C30: every invocation of handleSubmitProposal that completes, with a
\* stored proposal, a failed put or an exception, ends with isSubmitting
\* false, and isSubmitting is true only while the put of an invocation is
\* still out; so, provided every put resolves or rejects, a panel that is
\* locked by isSubmitting is unlocked again.
C30_SubmittingReleased ==
    /\ [](\A p \in Party : isSubmitting[p] => SubmitInFlight(p) # {})
    /\ [][\A p \in Party :
             (\E m \in puts[p], ok \in BOOLEAN : SubmitResolve(p, m, ok))
                => ~isSubmitting'[p]]_vars
    /\ \A p \in Party : isSubmitting[p] ~> ~isSubmitting[p]

\* a put of the session failed: the flag is down again and the error shows
C30_Witness ==
    \E p \in mounted :
        /\ ~isSubmitting[p] /\ puts[p] = {}
        /\ submissionError[p] = "Failed to submit proposal."

====
